---- MODULE Spec2Model ----
(***************************************************************************)
(* RepoLens: the analysis pipeline (create / re-analyse requests,          *)
(* queue_analysis dispatch, analyze_repository_task) and the question      *)
(* answering path (ask_question, QAEngine.answer).                         *)
(*                                                                         *)
(* The database is the set of committed rows.  A run of the task works in  *)
(* its own session and commits at the places the code commits; one action  *)
(* is the code between two commits.  An API request works in the session   *)
(* of get_db, which commits after the handler has returned.                *)
(***************************************************************************)
EXTENDS Integers, Sequences, FiniteSets, TLC

\* ---------------------------------------------------------------- bounds
MaxCalls == 2      \* calls of queue_analysis (one create, the rest re-analyses or direct calls)
MaxChunks == 1     \* chunks the tree of a repository yields
MaxStored == 2     \* code_chunks rows in the table that questions are asked against
MaxAsks == 2       \* ask_question requests
MaxFiles == 2      \* files of a tree that discovery walks
MaxDepth == 2      \* depth of the directories of such a tree
MaxBlocks == 2     \* full blocks of CHUNK_SIZE_LINES lines in a file given to chunk_file
MaxNodes == 2      \* AST nodes of a Python file given to chunk_file
MaxThreads == 2    \* threads that call into EmbeddingService
MaxTexts == 3      \* texts given to generate_embeddings_batch
MaxBatch == 3      \* batch_size given to generate_embeddings_batch

\* One repository: every query of the code filters by repository id, so runs
\* and requests of different repositories share no row.
RepoIds == {1}

RepoStatuses == {"pending", "analyzing", "ready", "failed"}
JobStatuses == {"queued", "processing", "completed", "failed"}

\* str(exc) of the exception that ends run n: one text per run, whatever the
\* step that raised it (the handler treats every exception alike)
ErrorText(n) == n

VARIABLES
    repoRow,        \* r -> "none" | "flushed" (inserted, transaction open) | "committed" | "deleted"
                    \*      | "rolledback" (the INSERT was undone: the row never existed)
    repoStatus,     \* r -> committed Repository.status
    repoWrite,      \* r -> an open transaction has sent an UPDATE of the row (row lock held)
    repoContent,    \* r -> number of chunks the repository's tree yields (the input, unchanged between runs)
    jobs,           \* the AnalysisJob objects in the order of created_at, the now() of the
                    \* transaction that inserts the row, which is its start; committed: the
                    \* row is in the table; a deleted row keeps its place with repo = 0
    chunkRows,      \* the CodeChunk rows that the runs of `runs` have committed, each with the
                    \* run that added it
    calls,          \* calls of queue_analysis with the request that made them: its transaction
                    \* (txn) is "dispatched" between queue_analysis and the flush of an update,
                    \* "open" once flushed, then "committed" or "rolledback"; loaded is the
                    \* status the handler's select returned
    runs,           \* runs of analyze_repository_task: the next step (pc), the status that
                    \* line 60 loaded, the run's committed job (0: none), the process that
                    \* executes it (proc, 0: the process of the API, w: a process of the
                    \* Celery worker), the model instance the run constructed in its
                    \* process (local) and the one _get_model returned to it (used),
                    \* the job rows that its session has loaded with the repository,
                    \* each with the status it had then (held)
    exitBeforeBackground,  \* whether the framework runs get_db's exit code before the deferred tasks
    embedded,       \* the table code_chunks: id -> [repo, emb], emb = 0 for NULL; a deleted
                    \* row keeps its place with repo = 0
    questions,      \* the table questions, each row with the request that inserted it; a
                    \* deleted row keeps its place with repo = 0
    asks,           \* ask_question requests: the next step of the handler (pc), what it has
                    \* read and computed, its pending Question object, its response (0: none
                    \* yet), the model instance it constructed (local) and the one it got (used)
    tree,           \* the directory tree discover_code_files walks: a set of files [dir, name]
    discovered,     \* <<>> before discover_code_files has run, then <<the files it returned>>
    source,         \* the file chunk_file is given: readable, suffix, lines, parse result
    chunked,        \* <<>> before chunk_file has run, then <<what the call gave>>: the list
                    \* it returned, or that it raised
    statusReply,    \* <<>> before the first status query, then <<the reply of the last one>>
    retrieval,      \* the last call of _retrieve_chunks with its result: <<>> before the first, then <<call>>
    model,          \* EmbeddingService._model: 0 for None, else the id of the model instance
    loads,          \* how many times the constructor SentenceTransformer(...) has run
    threads,        \* t -> the call of thread t into EmbeddingService: its place, the instance it
                    \* constructed (0: none) and the instance _get_model returned to it (0: not yet)
    batchInput,     \* the arguments of generate_embeddings_batch: texts and batch_size
    batchOutput     \* <<>> before generate_embeddings_batch has returned, then <<the list it returned>>

pipelineVars == <<repoRow, repoStatus, repoWrite, repoContent, jobs, chunkRows, calls, runs,
                  exitBeforeBackground>>
qaVars == <<embedded, questions, asks, retrieval>>
fnVars == <<tree, discovered, source, chunked, statusReply>>
embVars == <<model, loads, threads, batchInput, batchOutput>>
vars == <<pipelineVars, qaVars, fnVars, embVars>>

\* ---------------------------------------------------------------- helpers
RECURSIVE SeqOfWays(_, _)
SeqOfWays(order, ways) ==
    IF order = <<>> THEN <<>>
    ELSE (IF Head(order) \in ways THEN <<Head(order)>> ELSE <<>>)
          \o SeqOfWays(Tail(order), ways)

\* the rows of analysis_jobs of repository r
JobsOf(r) == {j \in DOMAIN jobs : jobs[j].repo = r /\ jobs[j].committed}

\* .order_by(AnalysisJob.created_at.desc()).first(): 0 when the repository has no job
LatestJob(r) ==
    IF JobsOf(r) = {} THEN 0
    ELSE CHOOSE j \in JobsOf(r) : \A k \in JobsOf(r) : k <= j

ChunkCount(r) == Cardinality({c \in chunkRows : c.repo = r})

\* rows a session inserts when it flushes `k` pending CodeChunk objects of run n
NewChunkRows(n, r, k) == {[repo |-> r, run |-> n, idx |-> i] : i \in 1..k}

\* ---------------------------------------------------------------- queue_analysis
QueueAnalysisEnqueueFirst(outcome, bg) ==
    IF outcome = "ok"
    THEN [ways |-> {"enqueue"}, ret |-> "task-id"]
    ELSE [ways |-> (IF outcome = "probe_fails" THEN {"enqueue"} ELSE {})
                     \cup (IF bg THEN {"deferred"} ELSE {"sync"}),
          ret |-> "local-task"]

\* outcome: "ok" (ping and delay succeed), "probe_fails" (ping times out or raises),
\* "enqueue_fails" (ping succeeds, delay raises).  bg: background_tasks is not None.
QueueAnalysis(outcome, bg) ==
    IF outcome = "ok"
    THEN [ways |-> {"enqueue"}, ret |-> "task-id"]
    ELSE [ways |-> IF bg THEN {"deferred"} ELSE {"sync"}, ret |-> "local-task"]

NewRun(r, way, c) ==
    [repo |-> r, mode |-> way, call |-> c, pc |-> "queued", job |-> 0,
     dir |-> "none", cloneDir |-> FALSE, result |-> "none",
     loaded |-> "none", proc |-> 0, local |-> 0, used |-> 0,
     flushed |-> 0, repoSeen |-> "none", jobSeen |-> 0, jobWrite |-> FALSE,
     held |-> <<>>]

\* the state of the caller's transaction when queue_analysis returns: the
\* INSERT of create_repository is flushed before the call, the UPDATE of
\* update_repository after it
TxnAtDispatch(caller) ==
    CASE caller = "direct" -> "none"
      [] caller = "create" -> "open"
      [] caller = "update" -> "dispatched"

\* the call record and the runs that queue_analysis(r, bg) starts
Dispatch(caller, r, outcome, bg, loaded) ==
    LET q == QueueAnalysis(outcome, bg)
        c == Len(calls) + 1
        ws == SeqOfWays(<<"enqueue", "deferred", "sync">>, q.ways)
    IN  /\ calls' = Append(calls,
                [caller |-> caller, repo |-> r,
                 ret |-> IF "sync" \in q.ways THEN "running" ELSE q.ret,
                 txn |-> TxnAtDispatch(caller), loaded |-> loaded])
        /\ runs' = runs \o [i \in 1..Len(ws) |-> NewRun(r, ws[i], c)]

Outcomes == {"ok", "probe_fails", "enqueue_fails"}

\* ---------------------------------------------------------------- API requests
\* POST /repositories: duplicate check, INSERT (flush), queue_analysis; the
\* commit is get_db's, after the handler.
CreateRepository(r, n, outcome) ==
    /\ Len(calls) < MaxCalls
    /\ repoRow[r] = "none"
    /\ \A s \in RepoIds : s < r => repoRow[s] # "none"
    /\ repoRow' = [repoRow EXCEPT ![r] = "flushed"]
    /\ repoStatus' = [repoStatus EXCEPT ![r] = "pending"]
    /\ repoContent' = [repoContent EXCEPT ![r] = n]
    /\ Dispatch("create", r, outcome, TRUE, "pending")
    /\ UNCHANGED <<repoWrite, jobs, chunkRows, exitBeforeBackground, qaVars, fnVars, embVars>>

\* PUT /repositories/{id} with action "reanalyze" and no new name or branch,
\* lines 166-186: select the repository, repo.status = "pending" in the
\* session, queue_analysis.  Nothing is written to the database yet.
UpdateRepository(r, outcome) ==
    /\ Len(calls) < MaxCalls
    /\ repoRow[r] = "committed"
    /\ Dispatch("update", r, outcome, TRUE, repoStatus[r])
    /\ UNCHANGED <<repoRow, repoStatus, repoWrite, repoContent, jobs, chunkRows,
                   exitBeforeBackground, qaVars, fnVars, embVars>>

\* the request's session has an UPDATE of the status to send: the ORM sends
\* none when the attribute is set to the value that was loaded
WritesPending(c) == calls[c].caller = "update" /\ calls[c].loaded # "pending"

\* lines 189-190 of update_repository: await db.flush() sends UPDATE ...
\* status='pending', which waits for the row lock and holds it until the
\* transaction ends
FlushUpdate(c) ==
    /\ calls[c].txn = "dispatched"
    /\ LET r == calls[c].repo
       IN  IF WritesPending(c)
           THEN /\ ~repoWrite[r]
                /\ repoWrite' = [repoWrite EXCEPT ![r] = TRUE]
           ELSE UNCHANGED repoWrite
    /\ calls' = [calls EXCEPT ![c].txn = "open"]
    /\ UNCHANGED <<repoRow, repoStatus, repoContent, jobs, chunkRows, runs,
                   exitBeforeBackground, qaVars, fnVars, embVars>>

\* a caller outside the API: IngestionService.queue_analysis(repo_id), no background_tasks
DirectQueueAnalysis(r, outcome) ==
    /\ Len(calls) < MaxCalls
    /\ repoRow[r] = "committed"
    /\ Dispatch("direct", r, outcome, FALSE, "none")
    /\ UNCHANGED <<repoRow, repoStatus, repoWrite, repoContent, jobs, chunkRows,
                   exitBeforeBackground, qaVars, fnVars, embVars>>

DeferredRunsOf(c) == {n \in DOMAIN runs : runs[n].call = c /\ runs[n].mode = "deferred"}

\* get_db runs its exit code when the handler has returned and, with a
\* framework that runs the deferred tasks first, when those have ended
ExitCodeRuns(c) ==
    /\ calls[c].txn = "open"
    /\ exitBeforeBackground \/ \A n \in DeferredRunsOf(c) : runs[n].pc = "done"

\* get_db, line 37: await session.commit() after the handler returned
CommitRequest(c) ==
    /\ ExitCodeRuns(c)
    /\ calls' = [calls EXCEPT ![c].txn = "committed"]
    /\ LET r == calls[c].repo
       IN  IF calls[c].caller = "create"
           THEN /\ repoRow' = [repoRow EXCEPT ![r] = "committed"]
                /\ UNCHANGED <<repoStatus, repoWrite>>
           ELSE /\ repoStatus' = [repoStatus EXCEPT
                                    ![r] = IF WritesPending(c) THEN "pending" ELSE @]
                /\ repoWrite' = [repoWrite EXCEPT ![r] = IF WritesPending(c) THEN FALSE ELSE @]
                /\ UNCHANGED repoRow
    /\ UNCHANGED <<repoContent, jobs, chunkRows, runs, exitBeforeBackground, qaVars, fnVars, embVars>>

\* get_db, lines 38-40: an exception reaches the generator (the commit raises,
\* or the framework throws the error of a deferred task into it): rollback.
\* The INSERT or UPDATE of the request is undone and the row lock released;
\* the run stays dispatched.
RollbackRequest(c) ==
    /\ ExitCodeRuns(c)
    /\ calls' = [calls EXCEPT ![c].txn = "rolledback"]
    /\ LET r == calls[c].repo
       IN  IF calls[c].caller = "create"
           THEN /\ repoRow' = [repoRow EXCEPT ![r] = "rolledback"]
                /\ UNCHANGED repoWrite
           ELSE /\ repoWrite' = [repoWrite EXCEPT ![r] = IF WritesPending(c) THEN FALSE ELSE @]
                /\ UNCHANGED repoRow
    /\ UNCHANGED <<repoStatus, repoContent, jobs, chunkRows, runs, exitBeforeBackground,
                   qaVars, fnVars, embVars>>

\* DELETE /repositories/{id} with get_db's commit: the row of the repository
\* and, by the cascades of the relationships and of the foreign keys, every
\* row of code_chunks, analysis_jobs and questions that references it.  The
\* DELETE waits for an open transaction that has updated the row, and for
\* one that has inserted a row referencing it (the except block of a run that
\* has flushed its pending chunks, lines 164-179).
JobsAfterDelete(r) ==
    [j \in DOMAIN jobs |-> IF j \in JobsOf(r) THEN [jobs[j] EXCEPT !.repo = 0] ELSE jobs[j]]

EmbeddedAfterDelete(r) ==
    [i \in DOMAIN embedded |->
        IF embedded[i].repo = r THEN [repo |-> 0, emb |-> 0] ELSE embedded[i]]

QuestionsAfterDelete(r) ==
    [i \in DOMAIN questions |->
        IF questions[i].repo = r THEN [questions[i] EXCEPT !.repo = 0] ELSE questions[i]]

DeleteRepository(r) ==
    /\ repoRow[r] = "committed"
    /\ ~repoWrite[r]
    /\ \A n \in DOMAIN runs :
          runs[n].repo = r /\ runs[n].flushed > 0
              => runs[n].pc \notin {"except_job", "except_commit"}
    /\ repoRow' = [repoRow EXCEPT ![r] = "deleted"]
    /\ jobs' = JobsAfterDelete(r)
    /\ chunkRows' = {c \in chunkRows : c.repo # r}
    /\ embedded' = EmbeddedAfterDelete(r)
    /\ questions' = QuestionsAfterDelete(r)
    /\ UNCHANGED <<repoStatus, repoWrite, repoContent, calls, runs, exitBeforeBackground,
                   asks, retrieval, fnVars, embVars>>

\* the first job of the repository instead of the last
StatusQueryOldestJob(r) ==
    IF JobsOf(r) = {} THEN 0
    ELSE CHOOSE j \in JobsOf(r) : \A k \in JobsOf(r) : j <= k

\* select(AnalysisJob).where(repository_id == repo_id)
\*     .order_by(AnalysisJob.created_at.desc()).limit(1): 0 when there is none
StatusQueryJob(r) ==
    IF JobsOf(r) = {} THEN 0
    ELSE CHOOSE j \in JobsOf(r) : \A k \in JobsOf(r) : k <= j

\* GET /repositories/{id}/analysis: 404 when the repository has no job, else
\* the status, progress and error message of the job the query returns
GetAnalysisStatus(r) ==
    /\ LET j == StatusQueryJob(r)
       IN  statusReply' =
              IF j = 0
              THEN <<[repo |-> r, code |-> 404, run |-> 0, status |-> "none",
                      progress |-> 0, error |-> 0]>>
              ELSE <<[repo |-> r, code |-> 200, run |-> jobs[j].run, status |-> jobs[j].status,
                      progress |-> jobs[j].progress, error |-> jobs[j].error]>>
    /\ UNCHANGED <<pipelineVars, qaVars, embVars, tree, discovered, source, chunked>>

\* ---------------------------------------------------------------- the task
\* a deferred task starts after the response, that is after the handler has
\* returned; whether get_db has run its exit code by then is the framework's
\* choice
MayStart(n) ==
    runs[n].mode = "deferred" =>
        /\ calls[runs[n].call].txn # "dispatched"
        /\ exitBeforeBackground => calls[runs[n].call].txn # "open"

\* what the handler's commit writes in the job it marks: the columns whose
\* assigned value differs from the one the session holds.  str(exc) always
\* differs; "failed" differs unless the row was loaded as failed
FailedJob(job, err, writeStatus) ==
    [job EXCEPT !.status = IF writeStatus THEN "failed" ELSE @, !.error = err]

\* the synchronous local call returns to queue_analysis, or raises through it
CallsAfter(n, raised) ==
    IF runs[n].mode = "sync"
    THEN [calls EXCEPT ![runs[n].call].ret = IF raised THEN "raised" ELSE "local-task"]
    ELSE calls

ForeignKeyUnchecked(r) == TRUE

\* ForeignKey("repositories.id"): a row that references repository r can be
\* inserted only while the row of r exists
ForeignKeyHolds(r) == repoRow[r] = "committed"

\* the rows of the run's job and repository are gone: every flush of the
\* run's session fails from then on
RowsGone(n) == repoRow[runs[n].repo] = "deleted"

\* the embedding the model gives for the i-th chunk of the tree: a vector
\* that depends on the chunk's text only
ChunkVector(i) == 1 + (i % 3)

\* the rows of code_chunks that a flush of k pending CodeChunk objects inserts
\* (line 142: embedding=emb, never NULL)
NewEmbeddedRows(r, k) == [i \in 1..k |-> [repo |-> r, emb |-> ChunkVector(i)]]

\* finally (lines 182-185): IngestionService.cleanup(clone_dir) when the
\* task's clone_dir is set.  shutil.rmtree(clone_dir, ignore_errors=True)
\* (ingestion.py 100-101) removes the tree, or leaves what it cannot remove
\* and reports nothing.
DirsAfterCleanup(dir, cloneDir) == IF cloneDir THEN {"removed", "exists"} ELSE {dir}

\* a commit of the run fails in its flush (a row is rejected, or the rows of
\* the run are gone): the session's transaction is rolled back and left
\* inactive, the except block calls no db.rollback(), so its first query
\* (line 164) raises and nothing is written; finally db.close() and
\* cleanup(clone_dir)
FailedFlush(n, dir, cloneDir) ==
    /\ \E left \in DirsAfterCleanup(dir, cloneDir) :
          runs' = [runs EXCEPT ![n].pc = "done", ![n].result = "raised",
                               ![n].dir = left, ![n].held = <<>>]
    /\ calls' = CallsAfter(n, TRUE)
    /\ UNCHANGED <<repoStatus, jobs, chunkRows, embedded>>

\* the status that the run's session holds for the repository when the
\* handler assigns "failed": "analyzing" (line 73, the object stays in the
\* session) when line 60 loaded the row, else the committed status that the
\* handler's query of line 164 loads
SessionStatus(n) ==
    IF runs[n].loaded = "none" THEN repoStatus[runs[n].repo] ELSE "analyzing"

\* a flush inside the except block fails (IntegrityError, StaleDataError): the
\* exception leaves the block, nothing is committed; finally db.close(), which
\* rolls back and gives up the row lock if the session holds it, and
\* cleanup(clone_dir).  The fields of the run that carry the except block are
\* as before it.
HandlerFails(n, dir, cloneDir) ==
    /\ \E left \in DirsAfterCleanup(dir, cloneDir) :
          runs' = [runs EXCEPT ![n].pc = "done", ![n].result = "raised",
                               ![n].dir = left,
                               ![n].flushed = 0, ![n].repoSeen = "none",
                               ![n].jobSeen = 0, ![n].jobWrite = FALSE,
                               ![n].held = <<>>]
    /\ calls' = CallsAfter(n, TRUE)
    /\ UNCHANGED <<repoStatus, jobs, chunkRows, embedded>>

\* lines 162-166, entered when a step raises with k CodeChunk objects pending
\* in the session and the clone directory in state `dir` (cloneDir: the
\* task's clone_dir variable is set).  The query of line 164 autoflushes the
\* pending chunks (INSERT, which fails on the foreign key when the repository
\* is gone) and reads the repository as committed at that moment; when there
\* is a row, "failed" is assigned in the session.  repoSeen: no row, or the
\* status the session holds is "failed" already (no UPDATE will be sent), or
\* it differs.  A session that line 60 left without the repository loads
\* the row here, and with it its job rows as committed now (analysis_jobs,
\* lazy="selectin"); the session keeps the objects (expire_on_commit=False)
\* and a later query that returns one of these rows gives the object as it
\* was loaded.  Nothing is committed yet.
HandlerSelectRepository(n, k, dir, cloneDir) ==
    LET r == runs[n].repo
    IN  IF k > 0 /\ ~ForeignKeyHolds(r)
        THEN HandlerFails(n, dir, cloneDir)
        ELSE /\ runs' = [runs EXCEPT
                            ![n].pc = "except_job",
                            ![n].dir = dir,
                            ![n].cloneDir = cloneDir,
                            ![n].flushed = k,
                            ![n].repoSeen =
                                IF repoRow[r] # "committed" THEN "absent"
                                ELSE IF SessionStatus(n) = "failed" THEN "same"
                                ELSE "changed",
                            ![n].held =
                                IF runs[n].loaded = "none" /\ repoRow[r] = "committed"
                                THEN [j \in JobsOf(r) |-> jobs[j].status] ELSE @]
             /\ UNCHANGED <<repoStatus, jobs, chunkRows, embedded, calls>>

\* lines 168-177.  The query autoflushes the UPDATE of the repository's
\* status, which waits for the row lock and keeps it until the session ends,
\* and matches no row when the repository has been deleted since line 164
\* (StaleDataError).  Then the most recent job of the repository, as committed
\* at that moment, is found, and status failed and str(exc) are assigned to
\* its object in the session.  jobWrite: "failed" differs from the status the
\* session holds for the job, which is the one of the run's own object
\* (lines 65-72), or the one the row had when the session loaded it with the
\* repository, or, for a row the session meets here for the first time, the
\* committed one.
HandlerSelectJob(n) ==
    /\ runs[n].pc = "except_job"
    /\ LET r == runs[n].repo
           j == LatestJob(r)
       IN  IF runs[n].repoSeen = "changed" /\ repoRow[r] # "committed"
           THEN /\ HandlerFails(n, runs[n].dir, runs[n].cloneDir)
                /\ UNCHANGED repoWrite
           ELSE /\ runs[n].repoSeen = "changed" => ~repoWrite[r]
                /\ repoWrite' = [repoWrite EXCEPT
                                    ![r] = IF runs[n].repoSeen = "changed" THEN TRUE ELSE @]
                /\ runs' = [runs EXCEPT
                               ![n].pc = "except_commit",
                               ![n].jobSeen = j,
                               ![n].jobWrite =
                                   /\ j # 0
                                   /\ (IF jobs[j].run = n THEN "processing"
                                       ELSE IF j \in DOMAIN runs[n].held
                                            THEN runs[n].held[j]
                                       ELSE jobs[j].status) # "failed"]
                /\ UNCHANGED <<repoStatus, jobs, chunkRows, embedded, calls>>
    /\ UNCHANGED <<repoRow, repoContent, exitBeforeBackground,
                   questions, asks, retrieval, fnVars, embVars>>

\* lines 179-185: db.commit() flushes the UPDATE of the job, which matches no
\* row when the job has been deleted since the query (StaleDataError), and
\* makes the handler's writes visible: the repository's status, the job, the
\* chunk rows that line 164 flushed; raise; finally db.close() and
\* cleanup(clone_dir)
HandlerCommit(n) ==
    /\ runs[n].pc = "except_commit"
    /\ LET r == runs[n].repo
           j == runs[n].jobSeen
           k == runs[n].flushed
           locked == runs[n].repoSeen = "changed"
       IN  /\ repoWrite' = [repoWrite EXCEPT ![r] = IF locked THEN FALSE ELSE @]
           /\ IF j # 0 /\ jobs[j].repo # r
              THEN HandlerFails(n, runs[n].dir, runs[n].cloneDir)
              ELSE /\ repoStatus' = [repoStatus EXCEPT ![r] = IF locked THEN "failed" ELSE @]
                   /\ jobs' = IF j = 0 THEN jobs
                              ELSE [jobs EXCEPT ![j] = FailedJob(@, ErrorText(n), runs[n].jobWrite)]
                   /\ chunkRows' = chunkRows \cup NewChunkRows(n, r, k)
                   /\ embedded' = embedded \o NewEmbeddedRows(r, k)
                   /\ \E left \in DirsAfterCleanup(runs[n].dir, runs[n].cloneDir) :
                         runs' = [runs EXCEPT
                                     ![n].pc = "done", ![n].result = "raised",
                                     ![n].dir = left,
                                     ![n].flushed = 0, ![n].repoSeen = "none",
                                     ![n].jobSeen = 0, ![n].jobWrite = FALSE,
                                     ![n].held = <<>>]
                   /\ calls' = CallsAfter(n, TRUE)
    /\ UNCHANGED <<repoRow, repoContent, exitBeforeBackground,
                   questions, asks, retrieval, fnVars, embVars>>

\* the run executes in the process of the API (the fallback of queue_analysis)
InApiProcess(n) == runs[n].mode \in {"deferred", "sync"}

\* The processes of the Celery worker (prefork pool): each executes one task
\* at a time and keeps its EmbeddingService._model from one task to the next.
\* They are interchangeable: a task is taken by an idle process that has
\* executed a task before, or by the first of the fresh ones.
WorkerIds == 1..MaxCalls
Busy(w) == \E m \in DOMAIN runs : runs[m].proc = w /\ runs[m].pc \notin {"queued", "done"}
UsedWorkers == {w \in WorkerIds : \E m \in DOMAIN runs : runs[m].proc = w}

Processes(n) ==
    IF InApiProcess(n)
    THEN {0}
    ELSE {w \in WorkerIds : ~Busy(w) /\ (w \in UsedWorkers \/ w = Cardinality(UsedWorkers) + 1)}

\* the AnalysisJob object of lines 65-72.  Its created_at is the server
\* default now() of the INSERT, the start of the transaction, and the run's
\* first transaction starts with the SELECT of line 60.
NewJob(n) ==
    [repo |-> runs[n].repo, status |-> "processing", progress |-> 0, error |-> 0,
     run |-> n, committed |-> FALSE]

\* lines 58-73: the SELECT of line 60, which begins the run's first
\* transaction; no row: ValueError (the handler runs next); a row: its status
\* is loaded, and with it the job rows of the repository as committed now
\* (analysis_jobs, lazy="selectin"), which the session keeps as they are
\* (expire_on_commit=False); the job is added to the
\* session and repo.status = "analyzing" is assigned.  Nothing is written
\* yet.  w: the process that executes the task.
StartRun(n, w) ==
    /\ runs[n].pc = "queued"
    /\ MayStart(n)
    /\ w \in Processes(n)
    /\ LET r == runs[n].repo
       IN  IF repoRow[r] # "committed"
           THEN /\ runs' = [runs EXCEPT ![n].pc = "not_found", ![n].proc = w]
                /\ UNCHANGED jobs
           ELSE /\ runs' = [runs EXCEPT ![n].pc = "start", ![n].proc = w,
                                        ![n].loaded = repoStatus[r],
                                        ![n].held = [j \in JobsOf(r) |-> jobs[j].status]]
                /\ jobs' = Append(jobs, NewJob(n))
    /\ UNCHANGED <<repoRow, repoStatus, repoWrite, repoContent, chunkRows, calls,
                   exitBeforeBackground, qaVars, fnVars, embVars>>

\* lines 61-62 and 162-166: the ValueError of line 62 and the handler's query
\* of the repository, in the state of the database at that moment
RaiseNotFound(n) ==
    /\ runs[n].pc = "not_found"
    /\ HandlerSelectRepository(n, 0, "none", FALSE)
    /\ UNCHANGED <<repoRow, repoWrite, repoContent, exitBeforeBackground,
                   questions, asks, retrieval, fnVars, embVars>>

\* the job object that run n has added to its session
JobObject(n) == CHOOSE j \in DOMAIN jobs : jobs[j].run = n

\* line 74, db.commit(): INSERT of the job and, when "analyzing" differs from
\* the status that line 60 loaded, UPDATE of the status, which waits for the
\* row lock.  The flush fails when the repository has been deleted since
\* line 60.
CommitStart(n) ==
    /\ runs[n].pc = "start"
    /\ LET r == runs[n].repo
       IN  IF RowsGone(n)
           THEN FailedFlush(n, "none", FALSE)
           ELSE /\ runs[n].loaded # "analyzing" => ~repoWrite[r]
                /\ jobs' = [jobs EXCEPT ![JobObject(n)].committed = TRUE]
                /\ repoStatus' = [repoStatus EXCEPT
                                    ![r] = IF runs[n].loaded # "analyzing" THEN "analyzing" ELSE @]
                /\ runs' = [runs EXCEPT ![n].pc = "p10", ![n].job = JobObject(n)]
                /\ UNCHANGED <<chunkRows, embedded, calls>>
    /\ UNCHANGED <<repoRow, repoWrite, repoContent, exitBeforeBackground,
                   questions, asks, retrieval, fnVars, embVars>>

\* lines 77-82: self.update_state(...), which stores the state in the result
\* backend (Redis) and raises when the backend cannot be reached at that
\* moment, as it may be for a run of the fallback, or reachable again;
\* job.progress_percentage = 10; db.commit()
Checkpoint10(n, raises) ==
    /\ runs[n].pc = "p10"
    /\ CASE raises ->
              HandlerSelectRepository(n, 0, runs[n].dir, runs[n].cloneDir)
         [] ~raises /\ RowsGone(n) ->
              FailedFlush(n, runs[n].dir, runs[n].cloneDir)
         [] ~raises /\ ~RowsGone(n) ->
              /\ jobs' = [jobs EXCEPT ![runs[n].job].progress = 10]
              /\ runs' = [runs EXCEPT ![n].pc = "clone"]
              /\ UNCHANGED <<repoStatus, chunkRows, embedded, calls>>
    /\ UNCHANGED <<repoRow, repoWrite, repoContent, exitBeforeBackground,
                   questions, asks, retrieval, fnVars, embVars>>

\* what lines 84-95 can do: "no_directory": os.makedirs or tempfile.mkdtemp
\* raises (ingestion.py 73, 76), no directory has been made;
\* "git_command_error": clone_from raises GitCommandError, the directory is
\* removed (line 92); "git_command_error_dir_left": the same, and the rmtree
\* of line 92, which ignores errors, leaves the directory; "other_error":
\* clone_from raises another exception, which nothing catches;
\* "update_state_raises": the clone returns and self.update_state raises
CloneOutcomes ==
    {"ok", "no_directory", "git_command_error", "git_command_error_dir_left",
     "other_error", "update_state_raises"}

\* lines 84-95.  IngestionService.clone_repository: makedirs, mkdtemp,
\* clone_from; only GitCommandError is caught (rmtree, RuntimeError); the
\* task's clone_dir is set on return only.  Then self.update_state(...),
\* which may raise, and progress 20 is committed.
CloneStep(n, outcome) ==
    /\ runs[n].pc = "clone"
    /\ CASE outcome = "ok" /\ RowsGone(n) ->
              FailedFlush(n, "exists", TRUE)
         [] outcome = "ok" /\ ~RowsGone(n) ->
              /\ jobs' = [jobs EXCEPT ![runs[n].job].progress = 20]
              /\ runs' = [runs EXCEPT ![n].pc = "discover", ![n].dir = "exists",
                                      ![n].cloneDir = TRUE]
              /\ UNCHANGED <<repoStatus, chunkRows, embedded, calls>>
         [] outcome = "no_directory" ->
              HandlerSelectRepository(n, 0, "none", FALSE)
         [] outcome = "git_command_error" ->
              HandlerSelectRepository(n, 0, "removed", FALSE)
         [] outcome = "git_command_error_dir_left" ->
              HandlerSelectRepository(n, 0, "exists", FALSE)
         [] outcome = "other_error" ->
              HandlerSelectRepository(n, 0, "exists", FALSE)
         [] outcome = "update_state_raises" ->
              HandlerSelectRepository(n, 0, "exists", TRUE)
    /\ UNCHANGED <<repoRow, repoWrite, repoContent, exitBeforeBackground,
                   questions, asks, retrieval, fnVars, embVars>>

NextPc(pc) ==
    CASE pc = "discover" -> "chunk" [] pc = "chunk" -> "embed" [] pc = "encode" -> "store"

\* the checkpoints with the one before embedding left out
NextProgressSkipping(pc) ==
    CASE pc = "discover" -> 40 [] pc = "chunk" -> 85 [] pc = "encode" -> 85

NextProgress(pc) ==
    CASE pc = "discover" -> 40 [] pc = "chunk" -> 60 [] pc = "encode" -> 85

\* EmbeddingService._model of worker process w is set: a task executed by w
\* has constructed the model
WorkerModelLoaded(w) == \E m \in DOMAIN runs : runs[m].proc = w /\ runs[m].local # 0

\* generate_embeddings_batch (analysis.py:123) in a worker process, line 48:
\* the whole of _get_model, no other thread being in the process.  The model
\* is constructed when no earlier task of the process has done so; raises:
\* the constructor raises and the run ends in the handler, _model still None.
RunGetModel(n, raises) ==
    /\ runs[n].pc = "embed"
    /\ ~InApiProcess(n)
    /\ LET isLoaded == WorkerModelLoaded(runs[n].proc)
       IN  IF raises
           THEN /\ ~isLoaded
                /\ HandlerSelectRepository(n, 0, runs[n].dir, runs[n].cloneDir)
           ELSE /\ runs' = [runs EXCEPT ![n].pc = "encode",
                                        ![n].local = IF isLoaded THEN 0 ELSE 1,
                                        ![n].used = 1]
                /\ UNCHANGED <<repoStatus, jobs, chunkRows, embedded, calls>>
    /\ UNCHANGED <<repoRow, repoWrite, repoContent, exitBeforeBackground,
                   questions, asks, retrieval, fnVars, embVars>>

\* generate_embeddings_batch (analysis.py:123) in a run of the fallback, a
\* thread of the process of the API: line 24 of _get_model, the test
\* cls._model is None
RunGetModelCheck(n) ==
    /\ runs[n].pc = "embed"
    /\ InApiProcess(n)
    /\ runs' = [runs EXCEPT ![n].pc = IF model = 0 THEN "construct" ELSE "return"]
    /\ UNCHANGED <<repoRow, repoStatus, repoWrite, repoContent, jobs, chunkRows, calls,
                   exitBeforeBackground, qaVars, fnVars, embVars>>

\* line 30, right-hand side: SentenceTransformer(...) builds a new instance,
\* no lock held; raises: the constructor raises and the run ends in the
\* handler with cls._model as it was
RunGetModelConstruct(n, raises) ==
    /\ runs[n].pc = "construct"
    /\ IF raises
       THEN /\ HandlerSelectRepository(n, 0, runs[n].dir, runs[n].cloneDir)
            /\ UNCHANGED loads
       ELSE /\ loads' = loads + 1
            /\ runs' = [runs EXCEPT ![n].pc = "assign", ![n].local = loads + 1]
            /\ UNCHANGED <<repoStatus, jobs, chunkRows, embedded, calls>>
    /\ UNCHANGED <<repoRow, repoWrite, repoContent, exitBeforeBackground,
                   questions, asks, retrieval, fnVars, model, threads, batchInput, batchOutput>>

\* line 30, the store: cls._model = <the instance this run built>
RunGetModelAssign(n) ==
    /\ runs[n].pc = "assign"
    /\ model' = runs[n].local
    /\ runs' = [runs EXCEPT ![n].pc = "return"]
    /\ UNCHANGED <<repoRow, repoStatus, repoWrite, repoContent, jobs, chunkRows, calls,
                   exitBeforeBackground, qaVars, fnVars, loads, threads, batchInput, batchOutput>>

\* line 32: return cls._model; the run encodes with the instance it got
RunGetModelReturn(n) ==
    /\ runs[n].pc = "return"
    /\ runs' = [runs EXCEPT ![n].pc = "encode", ![n].used = model]
    /\ UNCHANGED <<repoRow, repoStatus, repoWrite, repoContent, jobs, chunkRows, calls,
                   exitBeforeBackground, qaVars, fnVars, embVars>>

\* lines 97-105, 107-120, 122-131: discover_code_files, the chunk loop,
\* generate_embeddings_batch, each followed by self.update_state(...) and the
\* commit of the next checkpoint; raises: the step or update_state raises.
\* At "encode" the step is the rest of generate_embeddings_batch, after
\* _get_model has returned: the model of the process stays loaded.
MiddleStep(n, raises) ==
    /\ runs[n].pc \in {"discover", "chunk", "encode"}
    /\ CASE raises ->
              HandlerSelectRepository(n, 0, runs[n].dir, runs[n].cloneDir)
         [] ~raises /\ RowsGone(n) ->
              FailedFlush(n, runs[n].dir, runs[n].cloneDir)
         [] ~raises /\ ~RowsGone(n) ->
              /\ jobs' = [jobs EXCEPT ![runs[n].job].progress = NextProgress(runs[n].pc)]
              /\ runs' = [runs EXCEPT ![n].pc = NextPc(@)]
              /\ UNCHANGED <<repoStatus, chunkRows, embedded, calls>>
    /\ UNCHANGED <<repoRow, repoWrite, repoContent, exitBeforeBackground,
                   questions, asks, retrieval, fnVars, embVars>>

\* what the run writes in its job at line 154-156
CompletedJob(job) == [job EXCEPT !.status = "completed", !.progress = 100]

\* rows of the repository that the final commit leaves: the code deletes none
ChunkRowsAfterStore(n, r) == chunkRows \cup NewChunkRows(n, r, repoContent[r])

StoreOutcomes == {"ok", "store_raises", "commit_raises"}

\* lines 133-160: db.add(db_chunk) for every chunk, status ready, job
\* completed / 100, commit, return; finally db.close() and cleanup(clone_dir).
\* store_raises: the loop raises with k objects added; commit_raises: the
\* flush of the commit of line 157 fails (a row is rejected), as it does when
\* the rows of the repository and the job have been deleted.
StoreAndFinalise(n, outcome, k) ==
    /\ runs[n].pc = "store"
    /\ LET r == runs[n].repo
       IN  CASE outcome = "ok" /\ RowsGone(n) ->
                 /\ k = 0
                 /\ FailedFlush(n, runs[n].dir, runs[n].cloneDir)
             [] outcome = "ok" /\ ~RowsGone(n) ->
                 /\ k = 0
                 /\ ~repoWrite[r]
                 /\ repoStatus' = [repoStatus EXCEPT ![r] = "ready"]
                 /\ jobs' = [jobs EXCEPT ![runs[n].job] = CompletedJob(@)]
                 /\ chunkRows' = ChunkRowsAfterStore(n, r)
                 /\ embedded' = embedded \o NewEmbeddedRows(r, repoContent[r])
                 /\ \E left \in DirsAfterCleanup(runs[n].dir, runs[n].cloneDir) :
                       runs' = [runs EXCEPT ![n].pc = "done", ![n].result = "returned",
                                            ![n].dir = left, ![n].held = <<>>]
                 /\ calls' = CallsAfter(n, FALSE)
             [] outcome = "store_raises" ->
                 /\ k <= repoContent[r]
                 /\ HandlerSelectRepository(n, k, runs[n].dir, runs[n].cloneDir)
             [] outcome = "commit_raises" ->
                 /\ k = 0
                 /\ FailedFlush(n, runs[n].dir, runs[n].cloneDir)
    /\ UNCHANGED <<repoRow, repoWrite, repoContent, exitBeforeBackground,
                   questions, asks, retrieval, fnVars, embVars>>

\* ---------------------------------------------------------------- questions
\* settings.LLM_MODEL
LLM_MODEL == "mistral"

\* the vectors the embedding model can give (ids), and the one of the questions
Vectors == {1, 2, 3}
QuestionVectors == {1}

\* 1 - (embedding <=> query): the cosine similarity of the two vectors, in
\* units of 1/32 (every such value is a float that SQL and Python hold
\* exactly): 1.0 for equal vectors, 0.4375 for vectors 1 and 2, -0.0625 for
\* vectors 1 and 3, 0.15625 for vectors 2 and 3.  For an embedding that is
\* NULL the expression is NULL, which ORDER BY puts after every distance: it
\* is written as a value below -1.0
Similarity(qv, ev) ==
    CASE ev = 0 -> -64
      [] ev # 0 /\ qv = ev -> 32
      [] {qv, ev} = {1, 2} -> 14
      [] {qv, ev} = {1, 3} -> -2
      [] {qv, ev} = {2, 3} -> 5

\* the integer nearest to n / d for n >= 0, the even one of two at the same
\* distance
RoundHalfEven(n, d) ==
    LET q == n \div d
        r == n % d
    IN  IF 2 * r > d \/ (2 * r = d /\ q % 2 = 1) THEN q + 1 ELSE q

\* round(x, 3) of a float x given in units of 1/32, in units of 0.001: Python
\* rounds the exact value of the float to the nearest multiple of 0.001, a
\* value half way to the even one
Round3(x) ==
    IF x < 0 THEN 0 - RoundHalfEven((0 - x) * 1000, 32) ELSE RoundHalfEven(x * 1000, 32)

EligibleAnyEmbedding(r) == {i \in DOMAIN embedded : embedded[i].repo = r}

\* rows _retrieve_chunks may select: WHERE repository_id = :repo_id AND embedding IS NOT NULL
Eligible(r) == {i \in DOMAIN embedded : embedded[i].repo = r /\ embedded[i].emb # 0}

Min(a, b) == IF a < b THEN a ELSE b

\* the results ORDER BY embedding <=> :embedding LIMIT :top_k can give: the
\* top_k nearest rows by non-decreasing distance; SQL leaves the order of rows
\* at equal distance open
Retrievals(r, qv, top_k) ==
    LET E == Eligible(r)
        m == Min(top_k, Cardinality(E))
        sim(i) == Similarity(qv, embedded[i].emb)
    IN  {s \in [1..m -> E] :
            /\ \A a, b \in 1..m : a # b => s[a] # s[b]
            /\ \A a, b \in 1..m : a < b => sim(s[a]) >= sim(s[b])
            /\ \A i \in E : (\A a \in 1..m : s[a] # i) => \A a \in 1..m : sim(i) <= sim(s[a])}

\* the rows as _retrieve_chunks returns them
RetrievedChunks(s, qv) ==
    [a \in 1..Len(s) |-> [id |-> s[a], similarity |-> Similarity(qv, embedded[s[a]].emb)]]

\* the similarity of the last chunk, as if the list were in ascending order
LastSimilarity(chunks) == chunks[Len(chunks)].similarity

\* max(c["similarity"] for c in relevant_chunks)
RECURSIVE MaxSimilarity(_)
MaxSimilarity(chunks) ==
    IF Len(chunks) = 1 THEN chunks[1].similarity
    ELSE LET rest == MaxSimilarity(Tail(chunks))
         IN  IF chunks[1].similarity >= rest THEN chunks[1].similarity ELSE rest

GenOutcomes == {"text", "empty_text", "connect_error", "other_error"}

\* QAEngine._generate_answer: the response text, None on ConnectError and on
\* any other exception (timeout, non-2xx, bad JSON)
GenerateAnswer(gen) ==
    CASE gen = "text" -> "generated answer"
      [] gen = "empty_text" -> ""
      [] gen = "connect_error" -> "None"
      [] gen = "other_error" -> "None"

NO_RELEVANT_CODE == "I couldn't find relevant code in this repository to answer your question."

\* QAEngine.answer on the retrieved chunks; `called`: _generate_answer was called
Answer(chunks, gen) ==
    IF chunks = <<>>
    THEN [answer |-> NO_RELEVANT_CODE, confidence_score |-> 0, sources |-> <<>>,
          model_used |-> "none", error |-> FALSE, called |-> FALSE]
    ELSE LET answer_text == GenerateAnswer(gen)
         IN  [answer |-> answer_text,
              confidence_score |-> Round3(MaxSimilarity(chunks)),
              sources |-> [a \in 1..Len(chunks) |->
                              [chunk |-> chunks[a].id,
                               relevance_score |-> Round3(chunks[a].similarity)]],
              model_used |-> LLM_MODEL,
              error |-> (answer_text = "None"),
              called |-> TRUE]

\* qa_result["answer"] or "LLM generation failed."
StoredAnswerText(answer) ==
    IF answer = "None" \/ answer = "" THEN "LLM generation failed." ELSE answer

\* the response after the commit: 503 when qa_result["error"], else 200
AskResponse(res) == IF res.error THEN 503 ELSE 200

TOP_K == 5

\* the check that lets every existing repository through
RepositoryCheckExistsOnly(r) ==
    IF repoRow[r] # "committed" THEN 404 ELSE 0

\* lines 68-88: 404 when the repository does not exist, 400 when its status
\* is not ready, 0 when the handler goes on
RepositoryCheck(r) ==
    IF repoRow[r] # "committed" THEN 404
    ELSE IF repoStatus[r] # "ready" THEN 400
    ELSE 0

\* what the handler's select finds: the status of the repository, "absent"
\* when there is no row
SeenStatus(r) == IF repoRow[r] # "committed" THEN "absent" ELSE repoStatus[r]

\* POST /repositories/{repo_id}/questions, lines 68-88: the select of the
\* repository and the check.  The handler gives the control back at each of
\* its awaits, so the steps of one request are actions of their own: the
\* check, the embedding of the question, the retrieval, the generation, the
\* commit, the refresh.
\* pc: the next step of the handler; response: 0 until the handler has
\* returned or raised; engine: QAEngine.answer was called
AskQuestion(r, qv) ==
    /\ Len(asks) < MaxAsks
    /\ asks' = Append(asks, [repo |-> r, qv |-> qv, gen |-> "not_called",
                             pc |-> IF RepositoryCheck(r) # 0 THEN "done" ELSE "embed",
                             response |-> RepositoryCheck(r), result |-> "none",
                             retrieved |-> <<>>,
                             seen |-> SeenStatus(r), engine |-> FALSE,
                             pending |-> <<>>, open |-> TRUE,
                             local |-> 0, used |-> 0])
    /\ UNCHANGED <<pipelineVars, fnVars, embVars, embedded, questions, retrieval>>

\* the Question object that lines 95-103 build from qa_result
QuestionRow(a, res) ==
    [repo |-> asks[a].repo, ask |-> a,
     answer_text |-> StoredAnswerText(res.answer),
     confidence_score |-> res.confidence_score,
     sources |-> res.sources,
     model_used |-> res.model_used]

\* generate_embedding runs on the event loop without an await: while one
\* request is inside _get_model no other request of the loop goes on (the
\* deferred runs are threads of their own)
InGetModel(a) == asks[a].pc \in {"construct", "assign", "return"}
EventLoopFree(a) == \A b \in DOMAIN asks : b # a => ~InGetModel(b)

\* the handler raises an exception that is not an HTTPException: response
\* 500, no Question object built or stored
AskRaises(a) ==
    [asks EXCEPT ![a].pc = "done", ![a].response = 500, ![a].engine = TRUE]

\* QAEngine.answer, line 41: generate_embedding, line 24 of _get_model, the
\* test cls._model is None
AskGetModelCheck(a) ==
    /\ asks[a].pc = "embed"
    /\ EventLoopFree(a)
    /\ asks' = [asks EXCEPT ![a].pc = IF model = 0 THEN "construct" ELSE "return",
                            ![a].engine = TRUE]
    /\ UNCHANGED <<pipelineVars, fnVars, embVars, embedded, questions, retrieval>>

\* line 30, right-hand side: SentenceTransformer(...); raises: the
\* constructor raises through answer and the handler, cls._model as it was
AskGetModelConstruct(a, raises) ==
    /\ asks[a].pc = "construct"
    /\ IF raises
       THEN /\ asks' = AskRaises(a)
            /\ UNCHANGED loads
       ELSE /\ loads' = loads + 1
            /\ asks' = [asks EXCEPT ![a].pc = "assign", ![a].local = loads + 1]
    /\ UNCHANGED <<pipelineVars, fnVars, embedded, questions, retrieval,
                   model, threads, batchInput, batchOutput>>

\* line 30, the store: cls._model = <the instance this request built>
AskGetModelAssign(a) ==
    /\ asks[a].pc = "assign"
    /\ model' = asks[a].local
    /\ asks' = [asks EXCEPT ![a].pc = "return"]
    /\ UNCHANGED <<pipelineVars, fnVars, embedded, questions, retrieval,
                   loads, threads, batchInput, batchOutput>>

\* line 32: return cls._model; the request encodes with the instance it got
AskGetModelReturn(a) ==
    /\ asks[a].pc = "return"
    /\ asks' = [asks EXCEPT ![a].pc = "retrieve", ![a].used = model]
    /\ UNCHANGED <<pipelineVars, fnVars, embVars, embedded, questions, retrieval>>

\* model.encode raises, or db.execute of the retrieval statement does: both
\* are outside any try
RetrieveOutcomes == {"ok", "encode_raises", "execute_raises"}

\* QAEngine.answer, lines 41-61: model.encode of the question,
\* _retrieve_chunks, and the fixed result when nothing is retrieved
AnswerRetrieve(a, outcome) ==
    /\ asks[a].pc = "retrieve"
    /\ IF outcome # "ok"
       THEN asks' = AskRaises(a)
       ELSE \E s \in Retrievals(asks[a].repo, asks[a].qv, TOP_K) :
              LET relevant_chunks == RetrievedChunks(s, asks[a].qv)
                  res == Answer(relevant_chunks, "text")
              IN  asks' = IF relevant_chunks = <<>>
                          THEN [asks EXCEPT ![a].pc = "commit",
                                            ![a].result = res,
                                            ![a].pending = <<QuestionRow(a, res)>>]
                          ELSE [asks EXCEPT ![a].pc = "generate",
                                            ![a].retrieved = relevant_chunks]
    /\ UNCHANGED <<pipelineVars, fnVars, embVars, embedded, questions, retrieval>>

\* QAEngine.answer, lines 63-93: _generate_answer and the result; then lines
\* 95-104 of the handler: the Question object, db.add
AnswerGenerate(a, gen) ==
    /\ asks[a].pc = "generate"
    /\ LET res == Answer(asks[a].retrieved, gen)
       IN  asks' = [asks EXCEPT ![a].pc = "commit", ![a].gen = gen, ![a].result = res,
                                ![a].pending = <<QuestionRow(a, res)>>]
    /\ UNCHANGED <<pipelineVars, fnVars, embVars, embedded, questions, retrieval>>

\* line 105, await db.commit(): the INSERT of the question, which the foreign
\* key rejects when the repository has been deleted since the check
\* (IntegrityError, response 500, nothing stored)
CommitQuestion(a) ==
    /\ asks[a].pc = "commit"
    /\ IF ForeignKeyHolds(asks[a].repo)
       THEN /\ questions' = questions \o asks[a].pending
            /\ asks' = [asks EXCEPT ![a].pc = "refresh", ![a].pending = <<>>]
       ELSE /\ asks' = [asks EXCEPT ![a].pc = "done", ![a].response = 500,
                                    ![a].pending = <<>>]
            /\ UNCHANGED questions
    /\ UNCHANGED <<pipelineVars, fnVars, embVars, embedded, retrieval>>

\* the rows of the table questions that request a has inserted and that are
\* still there
LiveRowsOfAsk(a) == {i \in DOMAIN questions : questions[i].ask = a /\ questions[i].repo # 0}

\* lines 106-117: await db.refresh(new_question), which raises when the row
\* is no longer there (response 500); then 503 when qa_result["error"], else
\* the response 200
RefreshQuestion(a) ==
    /\ asks[a].pc = "refresh"
    /\ asks' = [asks EXCEPT ![a].pc = "done",
                            ![a].response = IF LiveRowsOfAsk(a) = {} THEN 500
                                            ELSE AskResponse(asks[a].result)]
    /\ UNCHANGED <<pipelineVars, fnVars, embVars, embedded, questions, retrieval>>

\* get_db after the handler: commit, or rollback when the handler raised;
\* the session holds nothing that the handler has not committed
CloseAsk(a) ==
    /\ asks[a].open
    /\ asks[a].pc = "done"
    /\ asks' = [asks EXCEPT ![a].open = FALSE]
    /\ UNCHANGED <<pipelineVars, fnVars, embVars, embedded, questions, retrieval>>

\* DELETE /questions/{question_id} with get_db's commit, for a question that
\* exists (the request answers 404 and changes nothing for any other id)
DeleteQuestion(i) ==
    /\ questions[i].repo # 0
    /\ questions' = [questions EXCEPT ![i].repo = 0]
    /\ UNCHANGED <<pipelineVars, fnVars, embVars, embedded, asks, retrieval>>

\* what self.db.execute(sql, {...}) of lines 117-124 does: it returns the
\* rows, or it raises (the server rejects the statement, whose text writes the
\* parameter as :embedding::vector, or cannot be reached); _retrieve_chunks
\* has no try
ExecuteOutcomes == {"ok", "execute_raises"}

\* QAEngine._retrieve_chunks(repo_id, query_embedding, top_k), called on its
\* own: the list it returns, or the exception of db.execute
RetrieveChunks(r, qv, k, outcome) ==
    /\ IF outcome = "ok"
       THEN \E s \in Retrievals(r, qv, k) :
               retrieval' = <<[repo |-> r, qv |-> qv, top_k |-> k, raised |-> FALSE,
                               rows |-> RetrievedChunks(s, qv)]>>
       ELSE retrieval' = <<[repo |-> r, qv |-> qv, top_k |-> k, raised |-> TRUE,
                            rows |-> <<>>]>>
    /\ UNCHANGED <<pipelineVars, fnVars, embVars, embedded, questions, asks>>

\* ---------------------------------------------------------------- file discovery
\* A file name is the sequence of its parts, "." being a part of its own:
\* main.py is <<"main", ".", "py">>, README is <<"README">>, .py is <<".", "py">>.
SUPPORTED_EXTENSIONS ==
    {<<".", "py">>, <<".", "js">>, <<".", "ts">>, <<".", "jsx">>, <<".", "tsx">>,
     <<".", "java">>, <<".", "cpp">>, <<".", "c">>, <<".", "h">>, <<".", "hpp">>,
     <<".", "go">>, <<".", "rs">>, <<".", "rb">>, <<".", "php">>, <<".", "swift">>,
     <<".", "kt">>, <<".", "scala">>, <<".", "cs">>}

IGNORED_DIRS ==
    {".git", "node_modules", "__pycache__", "venv", ".venv",
     "dist", "build", ".next", ".tox", "env", ".eggs"}

\* Path.suffix: the name from its last "." on, empty when the name has no ".",
\* starts with its only "." or ends with "."
Suffix(name) ==
    LET dots == {i \in DOMAIN name : name[i] = "."}
    IN  IF dots = {} THEN <<>>
        ELSE LET i == CHOOSE d \in dots : \A e \in dots : e <= d
             IN  IF 1 < i /\ i < Len(name) THEN SubSeq(name, i, Len(name)) ELSE <<>>

\* os.walk at dirpath: the files of that directory
Filenames(t, dirpath) == {f \in t : f.dir = dirpath}

\* os.walk at dirpath: the names of its subdirectories
Dirnames(t, dirpath) ==
    {f.dir[Len(dirpath) + 1] :
        f \in {g \in t : Len(g.dir) > Len(dirpath) /\ SubSeq(g.dir, 1, Len(dirpath)) = dirpath}}

\* the loop body without the pruning of dirnames
RECURSIVE WalkUnpruned(_, _)
WalkUnpruned(t, dirpath) ==
    {f \in Filenames(t, dirpath) : Suffix(f.name) \in SUPPORTED_EXTENSIONS}
        \cup UNION {WalkUnpruned(t, Append(dirpath, d)) : d \in Dirnames(t, dirpath)}

\* for dirpath, dirnames, filenames in os.walk(root): prune the ignored
\* directories, keep the files whose suffix is supported, descend
RECURSIVE Walk(_, _)
Walk(t, dirpath) ==
    LET kept == {d \in Dirnames(t, dirpath) : d \notin IGNORED_DIRS}
    IN  {f \in Filenames(t, dirpath) : Suffix(f.name) \in SUPPORTED_EXTENSIONS}
            \cup UNION {Walk(t, Append(dirpath, d)) : d \in kept}

\* IngestionService.discover_code_files(repo_path)
DiscoverCodeFiles ==
    /\ discovered = <<>>
    /\ discovered' = <<Walk(tree, <<>>)>>
    /\ UNCHANGED <<pipelineVars, qaVars, embVars, tree, source, chunked, statusReply>>

\* ---------------------------------------------------------------- chunking
\* A file is [readable, suffix, n, newline, text, parse]: n is
\* len(content.split("\n")), newline whether the content ends with "\n" (the
\* last of the n parts is then the empty string after it), text the numbers
\* of the parts that hold a non-whitespace character, parse
\* what ast.parse gives for a Python file: a SyntaxError, another exception
\* (MemoryError or RecursionError on a source nested too deep), or the
\* definition and other nodes in the order of ast.walk, each with lineno and
\* end_lineno.
SyntaxError == [exc |-> "SyntaxError", nodes |-> <<>>]
OtherError == [exc |-> "other", nodes |-> <<>>]
Parsed(nodes) == [exc |-> "none", nodes |-> nodes]

\* what a call gives: the list it returns, or the exception it raises
Returned(chunks) == [raised |-> FALSE, chunks |-> chunks]
Raised == [raised |-> TRUE, chunks |-> <<>>]
NoSource ==
    [readable |-> FALSE, suffix |-> <<>>, n |-> 1, newline |-> FALSE, text |-> {},
     parse |-> Parsed(<<>>)]

CHUNK_SIZE_LINES == 50

\* EXTENSION_LANG_MAP.get(file_path.suffix, "unknown")
Language(suffix) ==
    CASE suffix = <<".", "py">> -> "python"
      [] suffix \in {<<".", "js">>, <<".", "jsx">>} -> "javascript"
      [] suffix \in {<<".", "ts">>, <<".", "tsx">>} -> "typescript"
      [] suffix = <<".", "java">> -> "java"
      [] suffix \in {<<".", "cpp">>, <<".", "hpp">>} -> "cpp"
      [] suffix \in {<<".", "c">>, <<".", "h">>} -> "c"
      [] suffix = <<".", "go">> -> "go"
      [] suffix = <<".", "rs">> -> "rust"
      [] suffix = <<".", "rb">> -> "ruby"
      [] suffix = <<".", "php">> -> "php"
      [] suffix = <<".", "swift">> -> "swift"
      [] suffix = <<".", "kt">> -> "kotlin"
      [] suffix = <<".", "scala">> -> "scala"
      [] suffix = <<".", "cs">> -> "csharp"
      [] OTHER -> "unknown"

\* the loop of _extract_generic_chunks that appends every block, blank or not
RECURSIVE GenericFromKeepBlank(_, _, _, _)
GenericFromKeepBlank(i, n, text, language) ==
    IF i >= n THEN <<>>
    ELSE <<[chunk_type |-> "block", line_start |-> i + 1,
            line_end |-> Min(i + CHUNK_SIZE_LINES, n), language |-> language]>>
         \o GenericFromKeepBlank(i + CHUNK_SIZE_LINES, n, text, language)

\* for i in range(i, len(lines), CHUNK_SIZE_LINES): a chunk for the block
\* lines[i : i + CHUNK_SIZE_LINES] when text.strip() is not empty
RECURSIVE GenericFrom(_, _, _, _)
GenericFrom(i, n, text, language) ==
    IF i >= n THEN <<>>
    ELSE (IF \E l \in text : i + 1 <= l /\ l <= Min(i + CHUNK_SIZE_LINES, n)
          THEN <<[chunk_type |-> "block", line_start |-> i + 1,
                  line_end |-> Min(i + CHUNK_SIZE_LINES, n), language |-> language]>>
          ELSE <<>>)
         \o GenericFrom(i + CHUNK_SIZE_LINES, n, text, language)

\* ChunkingService._extract_generic_chunks
ExtractGenericChunks(src, language) == GenericFrom(0, src.n, src.text, language)

\* the chunk of a node with the two line numbers exchanged
NodeChunkSwapped(node) ==
    [chunk_type |-> IF node.kind = "ClassDef" THEN "class" ELSE "function",
     line_start |-> IF node.end_lineno = 0 THEN node.lineno ELSE node.end_lineno,
     line_end |-> node.lineno,
     language |-> "python"]

\* the CodeChunkData of a definition node; end_lineno 0 stands for None
NodeChunk(node) ==
    [chunk_type |-> IF node.kind = "ClassDef" THEN "class" ELSE "function",
     line_start |-> node.lineno,
     line_end |-> IF node.end_lineno = 0 THEN node.lineno ELSE node.end_lineno,
     language |-> "python"]

\* for node in ast.walk(tree): the function and class definitions
RECURSIVE NodeChunks(_)
NodeChunks(nodes) ==
    IF nodes = <<>> THEN <<>>
    ELSE (IF Head(nodes).kind \in {"FunctionDef", "AsyncFunctionDef", "ClassDef"}
          THEN <<NodeChunk(Head(nodes))>> ELSE <<>>)
         \o NodeChunks(Tail(nodes))

\* ChunkingService._extract_python_chunks: except SyntaxError catches the
\* SyntaxError of ast.parse and no other exception
ExtractPythonChunks(src) ==
    CASE src.parse.exc = "SyntaxError" -> Returned(ExtractGenericChunks(src, "python"))
      [] src.parse.exc = "other" -> Raised
      [] src.parse.exc = "none" ->
            LET chunks == NodeChunks(src.parse.nodes)
            IN  Returned(IF chunks = <<>> THEN ExtractGenericChunks(src, "python")
                         ELSE chunks)

\* ChunkingService.chunk_file: [] when _read gives None
ChunkFileResult(src) ==
    IF ~src.readable THEN Returned(<<>>)
    ELSE LET language == Language(src.suffix)
         IN  IF language = "python" THEN ExtractPythonChunks(src)
             ELSE Returned(ExtractGenericChunks(src, language))

ChunkFile ==
    /\ chunked = <<>>
    /\ chunked' = <<ChunkFileResult(source)>>
    /\ UNCHANGED <<pipelineVars, qaVars, embVars, tree, discovered, source, statusReply>>

\* ---------------------------------------------------------------- embeddings
ThreadIds == 1..MaxThreads

NoThreads == [t \in ThreadIds |-> [pc |-> "idle", method |-> "none", local |-> 0, used |-> 0]]

EmbeddingMethods == {"generate_embedding", "generate_embeddings_batch"}

\* a thread enters generate_embedding or generate_embeddings_batch: the first
\* statement of both is model = cls._get_model()
CallEmbedding(t, method) ==
    /\ threads[t].pc = "idle"
    /\ threads' = [threads EXCEPT ![t].pc = "check", ![t].method = method]
    /\ UNCHANGED <<pipelineVars, qaVars, fnVars, model, loads, batchInput, batchOutput>>

\* line 24: if cls._model is None
GetModelCheck(t) ==
    /\ threads[t].pc = "check"
    /\ threads' = [threads EXCEPT ![t].pc = IF model = 0 THEN "construct" ELSE "return"]
    /\ UNCHANGED <<pipelineVars, qaVars, fnVars, model, loads, batchInput, batchOutput>>

\* line 30, right-hand side: SentenceTransformer(settings.EMBEDDING_MODEL)
\* builds a new instance; no lock is held
GetModelConstruct(t) ==
    /\ threads[t].pc = "construct"
    /\ loads' = loads + 1
    /\ threads' = [threads EXCEPT ![t].pc = "assign", ![t].local = loads + 1]
    /\ UNCHANGED <<pipelineVars, qaVars, fnVars, model, batchInput, batchOutput>>

\* line 30, the store: cls._model = <the instance this thread built>
GetModelAssign(t) ==
    /\ threads[t].pc = "assign"
    /\ model' = threads[t].local
    /\ threads' = [threads EXCEPT ![t].pc = "return"]
    /\ UNCHANGED <<pipelineVars, qaVars, fnVars, loads, batchInput, batchOutput>>

\* line 32: return cls._model; the caller encodes with the instance it got
GetModelReturn(t) ==
    /\ threads[t].pc = "return"
    /\ threads' = [threads EXCEPT ![t].pc = "done", ![t].used = model]
    /\ UNCHANGED <<pipelineVars, qaVars, fnVars, model, loads, batchInput, batchOutput>>

\* the texts are numbers; model.encode gives one vector per text, in the order
\* of the texts, and the vector depends on the text only
Texts == 1..3
EmbeddingOf(text) == 100 + text

\* model.encode(batch, ...).tolist()
Encode(batch) == [k \in 1..Len(batch) |-> EmbeddingOf(batch[k])]

NoBatch == [texts |-> <<>>, batch_size |-> 1]

\* the loop that moves on by one more than the batch it encoded
RECURSIVE BatchesFromSkipping(_, _, _)
BatchesFromSkipping(i, texts, batch_size) ==
    IF i >= Len(texts) THEN <<>>
    ELSE Encode(SubSeq(texts, i + 1, Min(i + batch_size, Len(texts))))
         \o BatchesFromSkipping(i + batch_size + 1, texts, batch_size)

\* for i in range(i, len(texts), batch_size):
\*     all_embeddings.extend(model.encode(texts[i : i + batch_size]).tolist())
RECURSIVE BatchesFrom(_, _, _)
BatchesFrom(i, texts, batch_size) ==
    IF i >= Len(texts) THEN <<>>
    ELSE Encode(SubSeq(texts, i + 1, Min(i + batch_size, Len(texts))))
         \o BatchesFrom(i + batch_size, texts, batch_size)

\* EmbeddingService.generate_embeddings_batch(texts, batch_size), called by
\* one thread: _get_model loads the model when there is none
GenerateEmbeddingsBatch ==
    /\ batchOutput = <<>>
    /\ model' = IF model = 0 THEN loads + 1 ELSE model
    /\ loads' = IF model = 0 THEN loads + 1 ELSE loads
    /\ batchOutput' = <<BatchesFrom(0, batchInput.texts, batchInput.batch_size)>>
    /\ UNCHANGED <<pipelineVars, qaVars, fnVars, threads, batchInput>>

\* ---------------------------------------------------------------- specification
Init ==
    /\ repoRow = [r \in RepoIds |-> "none"]
    /\ repoStatus = [r \in RepoIds |-> "pending"]
    /\ repoWrite = [r \in RepoIds |-> FALSE]
    /\ repoContent = [r \in RepoIds |-> 0]
    /\ jobs = <<>>
    /\ chunkRows = {}
    /\ calls = <<>>
    /\ runs = <<>>
    /\ exitBeforeBackground \in BOOLEAN
    /\ embedded = <<>>
    /\ questions = <<>>
    /\ asks = <<>>
    /\ retrieval = <<>>
    /\ tree = {}
    /\ discovered = <<>>
    /\ source = NoSource
    /\ chunked = <<>>
    /\ statusReply = <<>>
    /\ model = 0
    /\ loads = 0
    /\ threads = NoThreads
    /\ batchInput = NoBatch
    /\ batchOutput = <<>>

Next ==
    \/ \E r \in RepoIds, n \in 0..MaxChunks, o \in Outcomes : CreateRepository(r, n, o)
    \/ \E r \in RepoIds, o \in Outcomes : UpdateRepository(r, o)
    \/ \E c \in DOMAIN calls : FlushUpdate(c)
    \/ \E r \in RepoIds, o \in Outcomes : DirectQueueAnalysis(r, o)
    \/ \E c \in DOMAIN calls : CommitRequest(c)
    \/ \E c \in DOMAIN calls : RollbackRequest(c)
    \/ \E n \in DOMAIN runs : \E w \in Processes(n) : StartRun(n, w)
    \/ \E n \in DOMAIN runs : RaiseNotFound(n)
    \/ \E n \in DOMAIN runs : HandlerSelectJob(n)
    \/ \E n \in DOMAIN runs : HandlerCommit(n)
    \/ \E n \in DOMAIN runs : CommitStart(n)
    \/ \E n \in DOMAIN runs, b \in BOOLEAN : Checkpoint10(n, b)
    \/ \E n \in DOMAIN runs, o \in CloneOutcomes : CloneStep(n, o)
    \/ \E n \in DOMAIN runs, b \in BOOLEAN : MiddleStep(n, b)
    \/ \E n \in DOMAIN runs, b \in BOOLEAN : RunGetModel(n, b)
    \/ \E n \in DOMAIN runs : RunGetModelCheck(n)
    \/ \E n \in DOMAIN runs, b \in BOOLEAN : RunGetModelConstruct(n, b)
    \/ \E n \in DOMAIN runs : RunGetModelAssign(n)
    \/ \E n \in DOMAIN runs : RunGetModelReturn(n)
    \/ \E n \in DOMAIN runs, o \in StoreOutcomes, k \in 0..MaxChunks : StoreAndFinalise(n, o, k)

Spec == Init /\ [][Next]_vars

\* The deployment with the queue reachable: every request enqueues its run and
\* the workers run the tasks concurrently.  The API serves the create and
\* re-analyse requests one at a time and commits them; the trees yield no chunk.
InitWorkers ==
    /\ Init
    /\ exitBeforeBackground

\* no request of create_repository or update_repository is being served
NoTransactionOpen == \A c \in DOMAIN calls : calls[c].txn \notin {"dispatched", "open"}

NextWorkers ==
    \/ \E r \in RepoIds : NoTransactionOpen /\ CreateRepository(r, 0, "ok")
    \/ \E r \in RepoIds : NoTransactionOpen /\ UpdateRepository(r, "ok")
    \/ \E c \in DOMAIN calls : FlushUpdate(c)
    \/ \E c \in DOMAIN calls : CommitRequest(c)
    \/ \E n \in DOMAIN runs : \E w \in Processes(n) : StartRun(n, w)
    \/ \E n \in DOMAIN runs : RaiseNotFound(n)
    \/ \E n \in DOMAIN runs : HandlerSelectJob(n)
    \/ \E n \in DOMAIN runs : HandlerCommit(n)
    \/ \E n \in DOMAIN runs : CommitStart(n)
    \/ \E n \in DOMAIN runs, b \in BOOLEAN : Checkpoint10(n, b)
    \/ \E n \in DOMAIN runs, o \in CloneOutcomes : CloneStep(n, o)
    \/ \E n \in DOMAIN runs, b \in BOOLEAN : MiddleStep(n, b)
    \/ \E n \in DOMAIN runs, b \in BOOLEAN : RunGetModel(n, b)
    \/ \E n \in DOMAIN runs, o \in StoreOutcomes : StoreAndFinalise(n, o, 0)

SpecWorkers == InitWorkers /\ [][NextWorkers]_vars

\* The dispatch alone: the calls of queue_analysis with every outcome of the
\* probe and of the enqueue, the commits of the requests and the starts of the
\* runs.
NextDispatch ==
    \/ \E r \in RepoIds, n \in 0..MaxChunks, o \in Outcomes : CreateRepository(r, n, o)
    \/ \E r \in RepoIds, o \in Outcomes : UpdateRepository(r, o)
    \/ \E c \in DOMAIN calls : FlushUpdate(c)
    \/ \E r \in RepoIds, o \in Outcomes : DirectQueueAnalysis(r, o)
    \/ \E c \in DOMAIN calls : CommitRequest(c)
    \/ \E c \in DOMAIN calls : RollbackRequest(c)
    \/ \E n \in DOMAIN runs : \E w \in Processes(n) : StartRun(n, w)
    \/ \E n \in DOMAIN runs : RaiseNotFound(n)
    \/ \E n \in DOMAIN runs : HandlerSelectJob(n)
    \/ \E n \in DOMAIN runs : HandlerCommit(n)
    \/ \E n \in DOMAIN runs : CommitStart(n)

SpecDispatch == Init /\ [][NextDispatch]_vars

\* Questions asked one after the other against a database as the pipeline can
\* leave it: the repository absent or in any status, and up to MaxStored chunk
\* rows of this and of another repository, with or without an embedding.
OtherRepo == Cardinality(RepoIds) + 1

StoredTables ==
    UNION {[1..m -> [repo : RepoIds \cup {OtherRepo}, emb : {0} \cup Vectors]] : m \in 0..MaxStored}

InitQA ==
    /\ repoRow \in [RepoIds -> {"none", "committed"}]
    /\ repoStatus \in [RepoIds -> RepoStatuses]
    /\ \A r \in RepoIds : repoRow[r] = "none" => repoStatus[r] = "pending"
    /\ repoWrite = [r \in RepoIds |-> FALSE]
    /\ repoContent = [r \in RepoIds |-> 0]
    /\ jobs = <<>>
    /\ chunkRows = {}
    /\ calls = <<>>
    /\ runs = <<>>
    /\ exitBeforeBackground = TRUE
    /\ embedded \in StoredTables
    /\ questions = <<>>
    /\ asks = <<>>
    /\ retrieval = <<>>
    /\ tree = {}
    /\ discovered = <<>>
    /\ source = NoSource
    /\ chunked = <<>>
    /\ statusReply = <<>>
    /\ model = 0
    /\ loads = 0
    /\ threads = NoThreads
    /\ batchInput = NoBatch
    /\ batchOutput = <<>>

\* no request is being served
NoRequestOpen == \A a \in DOMAIN asks : ~asks[a].open

NextQA ==
    \/ \E r \in RepoIds, qv \in QuestionVectors : NoRequestOpen /\ AskQuestion(r, qv)
    \/ \E a \in DOMAIN asks : AskGetModelCheck(a)
    \/ \E a \in DOMAIN asks, b \in BOOLEAN : AskGetModelConstruct(a, b)
    \/ \E a \in DOMAIN asks : AskGetModelAssign(a)
    \/ \E a \in DOMAIN asks : AskGetModelReturn(a)
    \/ \E a \in DOMAIN asks, o \in RetrieveOutcomes : AnswerRetrieve(a, o)
    \/ \E a \in DOMAIN asks, g \in GenOutcomes : AnswerGenerate(a, g)
    \/ \E a \in DOMAIN asks : CommitQuestion(a)
    \/ \E a \in DOMAIN asks : RefreshQuestion(a)
    \/ \E a \in DOMAIN asks : CloseAsk(a)

SpecQA == InitQA /\ [][NextQA]_vars

\* Retrieval alone, with every limit from 1 to the one answer uses, against
\* tables of one more row, so that a limit below the number of rows of the
\* repository happens next to rows of another repository.  _retrieve_chunks
\* reads no other table.
RetrievalTables ==
    UNION {[1..m -> [repo : RepoIds \cup {OtherRepo}, emb : {0} \cup Vectors]] :
             m \in 0..(MaxStored + 1)}

InitRetrieval ==
    /\ repoRow = [r \in RepoIds |-> "committed"]
    /\ repoStatus = [r \in RepoIds |-> "ready"]
    /\ repoWrite = [r \in RepoIds |-> FALSE]
    /\ repoContent = [r \in RepoIds |-> 0]
    /\ jobs = <<>>
    /\ chunkRows = {}
    /\ calls = <<>>
    /\ runs = <<>>
    /\ exitBeforeBackground = TRUE
    /\ embedded \in RetrievalTables
    /\ questions = <<>>
    /\ asks = <<>>
    /\ retrieval = <<>>
    /\ tree = {}
    /\ discovered = <<>>
    /\ source = NoSource
    /\ chunked = <<>>
    /\ statusReply = <<>>
    /\ model = 0
    /\ loads = 0
    /\ threads = NoThreads
    /\ batchInput = NoBatch
    /\ batchOutput = <<>>

NextRetrieval ==
    \E r \in RepoIds, qv \in QuestionVectors, k \in 1..TOP_K, o \in ExecuteOutcomes :
        RetrieveChunks(r, qv, k, o)

SpecRetrieval == InitRetrieval /\ [][NextRetrieval]_vars

\* Discovery alone, on every tree of up to MaxFiles files in directories of
\* depth up to MaxDepth.
DirNames == {"src", "node_modules"}

FileNames ==
    {<<"main", ".", "py">>, <<"index", ".", "js">>, <<"README", ".", "md">>, <<"README">>,
     <<"image", ".", "png">>, <<".", "py">>}

RECURSIVE DirPaths(_)
DirPaths(depth) ==
    IF depth = 0 THEN {<<>>}
    ELSE LET shorter == DirPaths(depth - 1)
         IN  shorter \cup {Append(q, d) : q \in shorter, d \in DirNames}

RECURSIVE TreesUpTo(_)
TreesUpTo(k) ==
    IF k = 0 THEN {{}}
    ELSE LET smaller == TreesUpTo(k - 1)
         IN  smaller \cup {t \cup {[dir |-> q, name |-> f]} :
                              t \in smaller, q \in DirPaths(MaxDepth), f \in FileNames}

InitDiscovery ==
    /\ repoRow = [r \in RepoIds |-> "none"]
    /\ repoStatus = [r \in RepoIds |-> "pending"]
    /\ repoWrite = [r \in RepoIds |-> FALSE]
    /\ repoContent = [r \in RepoIds |-> 0]
    /\ jobs = <<>>
    /\ chunkRows = {}
    /\ calls = <<>>
    /\ runs = <<>>
    /\ exitBeforeBackground = TRUE
    /\ embedded = <<>>
    /\ questions = <<>>
    /\ asks = <<>>
    /\ retrieval = <<>>
    /\ tree \in TreesUpTo(MaxFiles)
    /\ discovered = <<>>
    /\ source = NoSource
    /\ chunked = <<>>
    /\ statusReply = <<>>
    /\ model = 0
    /\ loads = 0
    /\ threads = NoThreads
    /\ batchInput = NoBatch
    /\ batchOutput = <<>>

NextDiscovery == DiscoverCodeFiles

SpecDiscovery == InitDiscovery /\ [][NextDiscovery]_vars

\* chunk_file alone, on files of up to MaxBlocks full blocks, with one line
\* more or not, ending with a newline or not, whose non-blank lines are among the first line of each block
\* and the last line of the file.  ast.parse of a file without text gives no node or a
\* SyntaxError; the nodes of a file with text begin and end on non-blank lines
\* and come in an order that ast.walk can give, and such a file can be nested
\* too deep for the parser.
LineCounts ==
    {1} \cup {b * CHUNK_SIZE_LINES + e : b \in 1..MaxBlocks, e \in {0, 1}}

TextLines(n) ==
    ({1, n} \cup {b * CHUNK_SIZE_LINES + 1 : b \in 1..MaxBlocks}) \cap 1..n

\* the nodes of the walk that the model keeps: the three kinds of definition
\* that lines 95-98 test for, and the assignment for the statements that the
\* loop skips, each beginning and ending on a line with text
AstNodes(text) ==
    UNION {{[kind |-> k, lineno |-> a, end_lineno |-> b] :
                k \in {"FunctionDef", "AsyncFunctionDef", "ClassDef", "Assign"},
                b \in {l \in text : l >= a}} : a \in text}

\* node e is a statement of the body of the definition d: it begins on a line
\* of d (a definition begins its line and its body ends the last one)
Holds(d, e) == d.kind # "Assign" /\ d.lineno <= e.lineno /\ e.lineno <= d.end_lineno

\* x and y are two nodes of one file: two definitions begin on different
\* lines; a statement that begins on a line of a definition ends on one; a
\* statement that begins before a definition it does not hold ends before
\* it; of two assignments the earlier ends no later than the line on which the
\* other begins, so that of two that begin on one line one ends there
NodesFit(x, y) ==
    /\ (x.kind # "Assign" /\ y.kind # "Assign") => x.lineno # y.lineno
    /\ (x.kind = "Assign" /\ y.kind = "Assign" /\ x.lineno = y.lineno)
          => (x.end_lineno = x.lineno \/ y.end_lineno = y.lineno)
    /\ \A p \in {<<x, y>>, <<y, x>>} :
          LET d == p[1]
              e == p[2]
          IN  /\ Holds(d, e) => e.end_lineno <= d.end_lineno
              /\ (d.kind # "Assign" /\ e.lineno < d.lineno /\ ~Holds(e, d))
                    => e.end_lineno < d.lineno
              /\ (d.kind = "Assign" /\ e.kind = "Assign" /\ d.lineno < e.lineno)
                    => d.end_lineno <= e.lineno

\* for node in ast.walk(tree): the walk is breadth first, so the nodes come
\* by depth in the tree and, at one depth, in the order of the file; a node
\* comes after the definition that holds it.  q is the list of the kept nodes
\* of such a walk when its nodes fit pairwise and have depths in this order.
\* A statement is nested in compound statements whose headers are on
\* different lines before it (an assignment can follow the innermost header
\* on its line), each header one level deeper than the one before, the first
\* at depth 1 or one level below the definition that holds the statement;
\* assignments that share a line are statements of one body.  These are
\* conditions that every walk meets; the lists of up to two nodes that meet
\* them are the lists that a walk can give.
WalkOrder(q, text) ==
    LET HeaderLines(lo, e) ==
            {l \in text : lo < l /\ (l < e.lineno \/ (e.kind = "Assign" /\ l = e.lineno))}
    IN  /\ \A i, j \in DOMAIN q : i < j => NodesFit(q[i], q[j]) /\ ~Holds(q[j], q[i])
        /\ \E depth \in [DOMAIN q -> 1..(Cardinality(text) + 1)] :
              /\ \A i \in DOMAIN q : depth[i] <= 1 + Cardinality(HeaderLines(0, q[i]))
              /\ \A i, j \in DOMAIN q :
                    i < j =>
                       /\ depth[i] <= depth[j]
                       /\ depth[i] = depth[j]
                             => q[i].end_lineno <= q[j].lineno /\ ~Holds(q[i], q[j])
                       /\ Holds(q[i], q[j])
                             => depth[j] <= depth[i] + 1
                                                + Cardinality(HeaderLines(q[i].lineno, q[j]))
                       /\ (/\ q[i].kind = "Assign" /\ q[j].kind = "Assign"
                           /\ (q[i].end_lineno = q[j].lineno \/ q[j].end_lineno = q[i].lineno))
                             => depth[i] = depth[j]

RECURSIVE NodeListsUpTo(_, _)
NodeListsUpTo(k, text) ==
    IF k = 0 THEN {<<>>}
    ELSE LET shorter == NodeListsUpTo(k - 1, text)
         IN  shorter \cup {q \in {Append(p[1], p[2]) : p \in shorter \X AstNodes(text)} :
                               WalkOrder(q, text)}

ParseResults(suffix, text) ==
    IF suffix = <<".", "py">>
    THEN {SyntaxError} \cup (IF text = {} THEN {} ELSE {OtherError})
             \cup {Parsed(nodes) : nodes \in NodeListsUpTo(MaxNodes, text)}
    ELSE {Parsed(<<>>)}

\* the file given to chunk_file: one that cannot be read, or a readable one
ChunkInput ==
    \/ source = NoSource
    \/ \E n \in LineCounts, sx \in {<<".", "py">>, <<".", "js">>, <<".", "md">>} :
          \E t \in SUBSET TextLines(n) :
             \E pr \in ParseResults(sx, t), nl \in {b \in BOOLEAN : b => (n > 1 /\ n \notin t)} :
                source = [readable |-> TRUE, suffix |-> sx, n |-> n, newline |-> nl,
                          text |-> t, parse |-> pr]

InitChunking ==
    /\ repoRow = [r \in RepoIds |-> "none"]
    /\ repoStatus = [r \in RepoIds |-> "pending"]
    /\ repoWrite = [r \in RepoIds |-> FALSE]
    /\ repoContent = [r \in RepoIds |-> 0]
    /\ jobs = <<>>
    /\ chunkRows = {}
    /\ calls = <<>>
    /\ runs = <<>>
    /\ exitBeforeBackground = TRUE
    /\ embedded = <<>>
    /\ questions = <<>>
    /\ asks = <<>>
    /\ retrieval = <<>>
    /\ tree = {}
    /\ discovered = <<>>
    /\ ChunkInput
    /\ chunked = <<>>
    /\ statusReply = <<>>
    /\ model = 0
    /\ loads = 0
    /\ threads = NoThreads
    /\ batchInput = NoBatch
    /\ batchOutput = <<>>

NextChunking == ChunkFile

SpecChunking == InitChunking /\ [][NextChunking]_vars

\* The life of one repository from its creation on: its run, the questions
\* asked on it, the deletion of a question, and the deletion of the repository
\* at any moment, the queue reachable.
NextDelete ==
    \/ \E r \in RepoIds, n \in 0..MaxChunks : CreateRepository(r, n, "ok")
    \/ \E c \in DOMAIN calls : CommitRequest(c)
    \/ \E c \in DOMAIN calls : RollbackRequest(c)
    \/ \E r \in RepoIds : DeleteRepository(r)
    \/ \E n \in DOMAIN runs : \E w \in Processes(n) : StartRun(n, w)
    \/ \E n \in DOMAIN runs : RaiseNotFound(n)
    \/ \E n \in DOMAIN runs : HandlerSelectJob(n)
    \/ \E n \in DOMAIN runs : HandlerCommit(n)
    \/ \E n \in DOMAIN runs : CommitStart(n)
    \/ \E n \in DOMAIN runs, b \in BOOLEAN : Checkpoint10(n, b)
    \/ \E n \in DOMAIN runs, o \in CloneOutcomes : CloneStep(n, o)
    \/ \E n \in DOMAIN runs, b \in BOOLEAN : MiddleStep(n, b)
    \/ \E n \in DOMAIN runs, b \in BOOLEAN : RunGetModel(n, b)
    \/ \E n \in DOMAIN runs, o \in StoreOutcomes, k \in 0..MaxChunks : StoreAndFinalise(n, o, k)
    \/ \E r \in RepoIds, qv \in QuestionVectors : AskQuestion(r, qv)
    \/ \E a \in DOMAIN asks : AskGetModelCheck(a)
    \/ \E a \in DOMAIN asks, b \in BOOLEAN : AskGetModelConstruct(a, b)
    \/ \E a \in DOMAIN asks : AskGetModelAssign(a)
    \/ \E a \in DOMAIN asks : AskGetModelReturn(a)
    \/ \E a \in DOMAIN asks, o \in RetrieveOutcomes : AnswerRetrieve(a, o)
    \/ \E a \in DOMAIN asks, g \in GenOutcomes : AnswerGenerate(a, g)
    \/ \E a \in DOMAIN asks : CommitQuestion(a)
    \/ \E a \in DOMAIN asks : RefreshQuestion(a)
    \/ \E a \in DOMAIN asks : CloseAsk(a)
    \/ \E i \in DOMAIN questions : DeleteQuestion(i)

SpecDelete == InitWorkers /\ [][NextDelete]_vars

\* A status query sent at any moment of the runs of a repository that is
\* created and re-analysed, the queue reachable and the requests served one at
\* a time, the runs with every outcome of their steps.  The query changes
\* nothing in the database, so each behaviour ends with the one reply.
NoReplyYet == statusReply = <<>>

NextStatus ==
    \/ \E r \in RepoIds : NoReplyYet /\ NoTransactionOpen /\ CreateRepository(r, 0, "ok")
    \/ \E r \in RepoIds : NoReplyYet /\ NoTransactionOpen /\ UpdateRepository(r, "ok")
    \/ \E c \in DOMAIN calls : NoReplyYet /\ FlushUpdate(c)
    \/ \E c \in DOMAIN calls : NoReplyYet /\ CommitRequest(c)
    \/ \E n \in DOMAIN runs : NoReplyYet /\ (\E w \in Processes(n) : StartRun(n, w))
    \/ \E n \in DOMAIN runs : NoReplyYet /\ RaiseNotFound(n)
    \/ \E n \in DOMAIN runs : NoReplyYet /\ HandlerSelectJob(n)
    \/ \E n \in DOMAIN runs : NoReplyYet /\ HandlerCommit(n)
    \/ \E n \in DOMAIN runs : NoReplyYet /\ CommitStart(n)
    \/ \E n \in DOMAIN runs, b \in BOOLEAN : NoReplyYet /\ Checkpoint10(n, b)
    \/ \E n \in DOMAIN runs, o \in CloneOutcomes : NoReplyYet /\ CloneStep(n, o)
    \/ \E n \in DOMAIN runs, b \in BOOLEAN : NoReplyYet /\ MiddleStep(n, b)
    \/ \E n \in DOMAIN runs, b \in BOOLEAN : NoReplyYet /\ RunGetModel(n, b)
    \/ \E n \in DOMAIN runs, o \in StoreOutcomes : NoReplyYet /\ StoreAndFinalise(n, o, 0)
    \/ \E r \in RepoIds : NoReplyYet /\ GetAnalysisStatus(r)

SpecStatus == InitWorkers /\ [][NextStatus]_vars

\* The process of the API when Redis goes away after the first analysis: the
\* repository is created and analysed by a worker, the re-analysis falls back
\* to a deferred run, a thread of the process of the API, and questions are
\* asked meanwhile (the trees yield no chunk, so nothing is retrieved).  The
\* run and a request can both be inside _get_model.
NextApiProcess ==
    \/ \E r \in RepoIds : NoTransactionOpen /\ CreateRepository(r, 0, "ok")
    \/ \E r \in RepoIds : NoTransactionOpen /\ UpdateRepository(r, "probe_fails")
    \/ \E c \in DOMAIN calls : FlushUpdate(c)
    \/ \E c \in DOMAIN calls : CommitRequest(c)
    \/ \E n \in DOMAIN runs : \E w \in Processes(n) : StartRun(n, w)
    \/ \E n \in DOMAIN runs : RaiseNotFound(n)
    \/ \E n \in DOMAIN runs : HandlerSelectJob(n)
    \/ \E n \in DOMAIN runs : HandlerCommit(n)
    \/ \E n \in DOMAIN runs : CommitStart(n)
    \/ \E n \in DOMAIN runs : Checkpoint10(n, FALSE)
    \/ \E n \in DOMAIN runs : CloneStep(n, "ok")
    \/ \E n \in DOMAIN runs : MiddleStep(n, FALSE)
    \/ \E n \in DOMAIN runs : RunGetModel(n, FALSE)
    \/ \E n \in DOMAIN runs : RunGetModelCheck(n)
    \/ \E n \in DOMAIN runs : RunGetModelConstruct(n, FALSE)
    \/ \E n \in DOMAIN runs : RunGetModelAssign(n)
    \/ \E n \in DOMAIN runs : RunGetModelReturn(n)
    \/ \E n \in DOMAIN runs : StoreAndFinalise(n, "ok", 0)
    \/ \E r \in RepoIds, qv \in QuestionVectors : NoRequestOpen /\ AskQuestion(r, qv)
    \/ \E a \in DOMAIN asks : AskGetModelCheck(a)
    \/ \E a \in DOMAIN asks : AskGetModelConstruct(a, FALSE)
    \/ \E a \in DOMAIN asks : AskGetModelAssign(a)
    \/ \E a \in DOMAIN asks : AskGetModelReturn(a)
    \/ \E a \in DOMAIN asks : AnswerRetrieve(a, "ok")
    \/ \E a \in DOMAIN asks : CommitQuestion(a)
    \/ \E a \in DOMAIN asks : RefreshQuestion(a)
    \/ \E a \in DOMAIN asks : CloseAsk(a)

SpecApiProcess == InitWorkers /\ [][NextApiProcess]_vars

\* Threads of one process that call into EmbeddingService, the model not yet
\* loaded: the interpreter may switch threads between any two statements.
NextEmbedding ==
    \/ \E t \in ThreadIds, m \in EmbeddingMethods : CallEmbedding(t, m)
    \/ \E t \in ThreadIds : GetModelCheck(t)
    \/ \E t \in ThreadIds : GetModelConstruct(t)
    \/ \E t \in ThreadIds : GetModelAssign(t)
    \/ \E t \in ThreadIds : GetModelReturn(t)

SpecEmbedding == Init /\ [][NextEmbedding]_vars

\* generate_embeddings_batch alone, on every list of up to MaxTexts texts with
\* every batch size up to MaxBatch, the model loaded or not.
RECURSIVE TextListsUpTo(_)
TextListsUpTo(k) ==
    IF k = 0 THEN {<<>>}
    ELSE LET shorter == TextListsUpTo(k - 1)
         IN  shorter \cup {Append(q, x) : q \in shorter, x \in Texts}

InitBatch ==
    /\ repoRow = [r \in RepoIds |-> "none"]
    /\ repoStatus = [r \in RepoIds |-> "pending"]
    /\ repoWrite = [r \in RepoIds |-> FALSE]
    /\ repoContent = [r \in RepoIds |-> 0]
    /\ jobs = <<>>
    /\ chunkRows = {}
    /\ calls = <<>>
    /\ runs = <<>>
    /\ exitBeforeBackground = TRUE
    /\ embedded = <<>>
    /\ questions = <<>>
    /\ asks = <<>>
    /\ retrieval = <<>>
    /\ tree = {}
    /\ discovered = <<>>
    /\ source = NoSource
    /\ chunked = <<>>
    /\ statusReply = <<>>
    /\ model \in {0, 1}
    /\ loads = model
    /\ threads = NoThreads
    /\ batchInput \in [texts : TextListsUpTo(MaxTexts), batch_size : 1..MaxBatch]
    /\ batchOutput = <<>>

NextBatch == GenerateEmbeddingsBatch

SpecBatch == InitBatch /\ [][NextBatch]_vars

TypeOK ==
    /\ repoRow \in [RepoIds -> {"none", "flushed", "committed", "deleted", "rolledback"}]
    /\ repoStatus \in [RepoIds -> RepoStatuses]
    /\ \A j \in DOMAIN jobs : jobs[j].status \in JobStatuses /\ jobs[j].progress \in 0..100

\* ---------------------------------------------------------------- claims
RunsOf(c) == {n \in DOMAIN runs : runs[n].call = c}
RowsOfAsk(a) == {i \in DOMAIN questions : questions[i].ask = a}
Answered(a) == asks[a].response \in {200, 503}
GenerationFailed(a) == asks[a].gen \in {"connect_error", "other_error"}

AllowedRepoChanges ==
    {<<"pending", "analyzing">>, <<"analyzing", "ready">>, <<"analyzing", "failed">>,
     <<"ready", "pending">>, <<"failed", "pending">>}

\* C1: every change of a repository's committed status is one of
\* pending->analyzing, analyzing->ready, analyzing->failed, ready->pending,
\* failed->pending, under any interleaving of requests and runs.
C1_RepoStatusChanges ==
    [][\A r \in RepoIds :
          repoStatus'[r] # repoStatus[r]
              => <<repoStatus[r], repoStatus'[r]>> \in AllowedRepoChanges]_vars

\* C2: a job's status moves only along queued->processing->{completed, failed};
\* once completed or failed it never changes again.
C2_JobStatusFinal ==
    [][\A j \in DOMAIN jobs :
          /\ jobs[j].status \in {"completed", "failed"} => jobs'[j].status = jobs[j].status
          /\ jobs'[j].status # jobs[j].status
                => <<jobs[j].status, jobs'[j].status>> \in
                      {<<"queued", "processing">>, <<"processing", "completed">>,
                       <<"processing", "failed">>}]_vars

\* the step of run n in which a pipeline step (not the repository lookup) raises
\* and the task ends
StepFailure(n) ==
    /\ runs[n].job # 0
    /\ runs[n].result = "none"
    /\ runs'[n].result = "raised"

\* C3: when a pipeline step raises, then as the task ends the repository is
\* failed, the most recent job of the repository is failed with the text of the
\* triggering error as error_message, and the error is re-raised to the caller.
C3_FailureMarksRepoAndLatestJob ==
    [][\A n \in DOMAIN runs :
          StepFailure(n) =>
              LET r == runs[n].repo
                  j == LatestJob(r)'
              IN  /\ repoStatus'[r] = "failed"
                  /\ j # 0
                  /\ jobs'[j].status = "failed"
                  /\ jobs'[j].error = ErrorText(n)
                  /\ runs'[n].pc = "done"
                  /\ runs[n].mode = "sync" => calls'[runs[n].call].ret = "raised"]_vars

\* C4: when a run has ended, by success or by failure at any step, failures
\* inside the clone step included, its temporary directory no longer exists.
C4_CloneDirRemoved ==
    \A n \in DOMAIN runs : runs[n].pc = "done" => runs[n].dir # "exists"

\* C5: every call of queue_analysis starts the run in exactly one of the three
\* ways (enqueue, deferred task, synchronous call), whatever the probe and the
\* enqueue do.
C5_ExactlyOneWay ==
    \A c \in DOMAIN calls : Cardinality(RunsOf(c)) = 1

\* calls have fallen back to a deferred task and to a synchronous call
C5_Witness ==
    \E n1, n2 \in DOMAIN runs :
        /\ runs[n1].mode = "deferred"
        /\ runs[n2].mode = "sync"
        /\ RunsOf(runs[n1].call) = {n1}
        /\ RunsOf(runs[n2].call) = {n2}

\* C6: when the probe fails (the fallback is taken), queue_analysis returns
\* "local-task" to its caller, with and without background_tasks, also when
\* the local run ends in failure, and the run ends with the repository ready
\* or failed.
C6_FallbackReturnsSentinel ==
    \A c \in DOMAIN calls : \A n \in RunsOf(c) :
        runs[n].mode \in {"deferred", "sync"} =>
            /\ calls[c].ret \in {"local-task", "running"}
            /\ runs[n].pc = "done" => calls[c].ret = "local-task"

\* C7: re-running the analysis of an unchanged repository brings it to ready
\* again with as many chunk rows as the first run stored (the tree yields
\* repoContent chunks): the rows of the earlier run do not accumulate.
C7_RerunKeepsChunkCount ==
    \A r \in RepoIds :
        (/\ repoStatus[r] = "ready"
         /\ \A n \in DOMAIN runs : runs[n].repo = r => runs[n].result = "returned")
            => ChunkCount(r) = repoContent[r]

\* C8: every answer attempt of ask_question on a repository that its check
\* found ready persists exactly one Question row, also when generation fails:
\* the stored answer_text is then the placeholder, the stored confidence and
\* sources are those of the retrieval, and the row has been persisted although
\* the request ends with an error response.  (A row deleted afterwards keeps
\* its place in `questions`, so it still counts as persisted.)
C8_OneQuestionRowPerAttempt ==
    \A a \in DOMAIN asks :
        (asks[a].seen = "ready" /\ asks[a].pc = "done") =>
            /\ Cardinality(RowsOfAsk(a)) = 1
            /\ \A i \in RowsOfAsk(a) :
                  /\ questions[i].confidence_score = asks[a].result.confidence_score
                  /\ questions[i].sources = asks[a].result.sources
                  /\ GenerationFailed(a) =>
                        questions[i].answer_text = "LLM generation failed."

\* C9: an unavailable generation backend (connection failure, or any other
\* backend error) gives a degraded result of answer (answer null, flag set)
\* and is never propagated to the requester of the question as an error.
C9_UnavailableNeverAnError ==
    \A a \in DOMAIN asks :
        GenerationFailed(a) =>
            /\ asks[a].result.answer = "None"
            /\ asks[a].result.error
            /\ asks[a].pc = "done" => asks[a].response = 200

\* the greatest of the similarities of a non-empty list of retrieved chunks
GreatestSimilarityOf(ch) ==
    CHOOSE x \in {ch[i].similarity : i \in DOMAIN ch} :
        \A i \in DOMAIN ch : ch[i].similarity <= x

\* C11: for a non-empty retrieval result, the confidence score of answer is
\* the greatest similarity among the retrieved chunks rounded to 3 decimals,
\* and the sources are one entry per retrieved chunk in retrieval order; both
\* are the same whether generation succeeded or failed.
C11_ConfidenceAndSources ==
    \A a \in DOMAIN asks :
        (Answered(a) /\ asks[a].retrieved # <<>>) =>
            LET ch == asks[a].retrieved
                res == asks[a].result
            IN  /\ res.confidence_score =
                       Round3(GreatestSimilarityOf(ch))
                /\ Len(res.sources) = Len(ch)
                /\ \A i \in DOMAIN ch :
                      /\ res.sources[i].chunk = ch[i].id
                      /\ res.sources[i].relevance_score = Round3(ch[i].similarity)
                /\ \A b \in DOMAIN asks :
                      (Answered(b) /\ asks[b].retrieved = ch) =>
                          /\ asks[b].result.confidence_score = res.confidence_score
                          /\ asks[b].result.sources = res.sources

\* the same two chunks of different similarity were retrieved for a question
\* whose generation succeeded and for one whose generation failed
C11_Witness ==
    \E a, b \in DOMAIN asks :
        /\ Len(asks[a].retrieved) = 2
        /\ asks[a].retrieved[1].similarity > asks[a].retrieved[2].similarity
        /\ asks[b].retrieved = asks[a].retrieved
        /\ asks[a].gen = "text"
        /\ GenerationFailed(b)

\* C12: the retrieved list is in non-increasing similarity, and chunks of equal
\* similarity are in increasing chunk id, so that the result is determined by
\* the stored chunks and the query vector.
C12_RetrievalOrder ==
    \A c \in DOMAIN retrieval :
        LET rows == retrieval[c].rows
        IN  \A i, j \in DOMAIN rows :
                i < j =>
                    \/ rows[i].similarity > rows[j].similarity
                    \/ rows[i].similarity = rows[j].similarity /\ rows[i].id < rows[j].id

\* the stored rows of repository r that have an embedding
EmbeddedRowsOf(r) == {i \in DOMAIN embedded : embedded[i].repo = r /\ embedded[i].emb # 0}

\* C13: retrieval for repository R with limit k returns a list, never an
\* error: only chunks of R with a non-null embedding, each at most once, and
\* exactly min(k, number of such chunks) of them: all when fewer than k exist,
\* the empty list when none does.
C13_RetrievalScopeAndCount ==
    \A c \in DOMAIN retrieval :
        LET rows == retrieval[c].rows
            n == Cardinality(EmbeddedRowsOf(retrieval[c].repo))
        IN  /\ ~retrieval[c].raised
            /\ \A i \in DOMAIN rows : rows[i].id \in EmbeddedRowsOf(retrieval[c].repo)
            /\ \A i, j \in DOMAIN rows : i # j => rows[i].id # rows[j].id
            /\ Len(rows) = (IF retrieval[c].top_k < n THEN retrieval[c].top_k ELSE n)
            /\ n = 0 => rows = <<>>

\* file f lies in a directory with an ignored name, at some depth below the root
InIgnoredDir(f) == \E i \in DOMAIN f.dir : f.dir[i] \in IGNORED_DIRS

\* C14: discover_code_files returns exactly the files of the tree whose
\* extension is supported and that have no ancestor directory with an ignored
\* name: no file inside an ignored directory at any depth, whatever its
\* extension, and no file with an unsupported extension.
C14_DiscoveryIncludesAndExcludes ==
    \A c \in DOMAIN discovered :
        /\ discovered[c] \subseteq tree
        /\ \A f \in tree :
              /\ (Suffix(f.name) \in SUPPORTED_EXTENSIONS /\ ~InIgnoredDir(f))
                    => f \in discovered[c]
              /\ InIgnoredDir(f) => f \notin discovered[c]
              /\ Suffix(f.name) \notin SUPPORTED_EXTENSIONS => f \notin discovered[c]

\* a supported file below an ignored directory that is itself below an
\* ordinary one was left out, and a supported file elsewhere was found
C14_Witness ==
    \E c \in DOMAIN discovered : \E f, g \in tree :
        /\ Len(f.dir) = 2 /\ f.dir[1] \notin IGNORED_DIRS /\ f.dir[2] \in IGNORED_DIRS
        /\ Suffix(f.name) \in SUPPORTED_EXTENSIONS
        /\ f \notin discovered[c]
        /\ g \in discovered[c]

\* C15: discover_code_files includes the documentation files at the root of
\* the tree: README.md and README are in the discovered list.
C15_ReadmeDiscovered ==
    \A c \in DOMAIN discovered :
        \A f \in tree :
            (f.dir = <<>> /\ f.name \in {<<"README", ".", "md">>, <<"README">>})
                => f \in discovered[c]

\* C16: chunk_file on a zero-byte file, on a file with only whitespace and on
\* a file that cannot be read returns the empty list, for a Python file as for
\* a file of any other language.
C16_EmptyFileNoChunks ==
    \A c \in DOMAIN chunked :
        (~source.readable \/ source.text = {}) =>
            /\ ~chunked[c].raised
            /\ chunked[c].chunks = <<>>

\* a Python file of more than one block of whitespace has been chunked
C16_Witness ==
    \E c \in DOMAIN chunked :
        /\ source.readable
        /\ source.suffix = <<".", "py">>
        /\ source.text = {}
        /\ source.n > CHUNK_SIZE_LINES
        /\ chunked[c] = Returned(<<>>)

\* C17: every chunk chunk_file produces, by the structural strategy or by the
\* generic one, has 1 <= line_start <= line_end.
C17_LineStartNotAfterLineEnd ==
    \A c \in DOMAIN chunked :
        \A i \in DOMAIN chunked[c].chunks :
            /\ 1 <= chunked[c].chunks[i].line_start
            /\ chunked[c].chunks[i].line_start <= chunked[c].chunks[i].line_end

\* chunk_file has produced a structural chunk of several lines that starts
\* after the first line
C17_Witness ==
    \E c \in DOMAIN chunked : \E i \in DOMAIN chunked[c].chunks :
        /\ chunked[c].chunks[i].chunk_type \in {"function", "class"}
        /\ 1 < chunked[c].chunks[i].line_start
        /\ chunked[c].chunks[i].line_start < chunked[c].chunks[i].line_end

\* C18: once delete_repository of a repository has succeeded, no CodeChunk,
\* AnalysisJob or Question row references that repository, in every later
\* state, also when a run of the repository was in progress at the deletion.
C18_DeleteLeavesNoRows ==
    \A r \in RepoIds :
        repoRow[r] = "deleted" =>
            /\ \A c \in chunkRows : c.repo # r
            /\ \A i \in DOMAIN embedded : embedded[i].repo # r
            /\ JobsOf(r) = {}
            /\ \A i \in DOMAIN questions : questions[i].repo # r

\* the repository was deleted while a run was in its store step (its job was
\* deleted in status processing at progress 85) and that run has then failed
C18_Witness ==
    \E n \in DOMAIN runs :
        /\ repoRow[runs[n].repo] = "deleted"
        /\ runs[n].job # 0
        /\ jobs[runs[n].job].status = "processing"
        /\ jobs[runs[n].job].progress = 85
        /\ runs[n].result = "raised"

\* the runs of repository r that have started: the task has executed its
\* lookup of line 60, found the repository and created its job object (lines
\* 65-72); the jobs are numbered in the order of these starts
StartedRuns(r) ==
    {n \in DOMAIN runs : runs[n].repo = r /\ \E j \in DOMAIN jobs : jobs[j].run = n}

\* the one of a set of started runs that has started last
LastStarted(started) ==
    CHOOSE m \in started : \A o \in started : JobObject(o) <= JobObject(m)

\* the started runs of repository r whose job row is committed (line 74)
CommittedRuns(r) == {n \in StartedRuns(r) : jobs[JobObject(n)].committed}

\* the reply is the one for the job of run n, as the row stands
RepliesJobOf(reply, n) ==
    /\ reply.code = 200
    /\ reply.run = n
    /\ reply.status = jobs[JobObject(n)].status
    /\ reply.progress = jobs[JobObject(n)].progress
    /\ reply.error = jobs[JobObject(n)].error

\* C19 as stated: a status query reports the status, progress and error
\* message of the job of the most recently started run of the repository,
\* never those of an older job, and finds no job when no run of the
\* repository has started yet.
C19_StatusOfLatestRun ==
    [][statusReply' # statusReply =>
          LET reply == statusReply'[1]
              started == StartedRuns(reply.repo)
          IN  IF started = {}
              THEN reply.code = 404
              ELSE RepliesJobOf(reply, LastStarted(started))]_vars

\* C19: a status query reports the status, progress and error message of the
\* job of the run that started last among the runs of the repository whose
\* job row is committed when the query executes, never those of an older
\* committed job; a run that has started and has not committed its job (line
\* 74) is not seen, and the query finds no job when no run of the repository
\* has committed one.
C19_StatusOfLatestCommittedJob ==
    [][statusReply' # statusReply =>
          LET reply == statusReply'[1]
              committed == CommittedRuns(reply.repo)
          IN  IF committed = {}
              THEN reply.code = 404
              ELSE RepliesJobOf(reply, LastStarted(committed))]_vars

\* a query has reported the job of the first run while the second run of the
\* repository had started and not committed its job
C19_Witness ==
    \E c \in DOMAIN statusReply : \E n \in StartedRuns(statusReply[c].repo) :
        /\ statusReply[c].code = 200
        /\ statusReply[c].run # n
        /\ JobObject(statusReply[c].run) < JobObject(n)
        /\ ~jobs[JobObject(n)].committed

ProgressSteps ==
    {<<0, 10>>, <<10, 20>>, <<20, 40>>, <<40, 60>>, <<60, 85>>, <<85, 100>>}

\* the progress that is committed when a run is about to begin a step
ProgressBefore(pc) ==
    CASE pc = "clone" -> 10 [] pc = "discover" -> 20 [] pc = "chunk" -> 40
      [] pc \in {"embed", "construct", "assign", "return", "encode"} -> 60
      [] pc = "store" -> 85

\* C20: within a run the committed progress of the run's job starts at 0 and
\* goes through 10, 20, 40, 60, 85, 100 in this order, within [0,100] and
\* never decreasing; each checkpoint is committed before the step it names
\* begins; 100 is committed only together with job status completed and
\* repository status ready.
C20_ProgressCheckpoints ==
    /\ [](\A n \in DOMAIN runs :
            runs[n].pc \in {"clone", "discover", "chunk", "embed", "construct", "assign",
                            "return", "encode", "store"}
                => jobs[runs[n].job].progress = ProgressBefore(runs[n].pc))
    /\ [][\A j \in DOMAIN jobs' :
            /\ jobs'[j].progress \in 0..100
            /\ j \notin DOMAIN jobs => jobs'[j].progress = 0
            /\ j \in DOMAIN jobs =>
                  /\ jobs'[j].progress >= jobs[j].progress
                  /\ jobs'[j].progress # jobs[j].progress
                        => <<jobs[j].progress, jobs'[j].progress>> \in ProgressSteps
                  /\ (jobs'[j].progress = 100 /\ jobs[j].progress # 100)
                        => /\ jobs'[j].status = "completed"
                           /\ repoStatus'[jobs[j].repo] = "ready"]_vars

\* a run has completed (progress 100) while the job of another run of the
\* same repository stands at the checkpoint before embedding
C20_Witness ==
    \E i, j \in DOMAIN jobs :
        /\ i # j
        /\ jobs[i].repo = jobs[j].repo
        /\ jobs[i].progress = 100
        /\ jobs[j].progress = 60

\* C10: when no chunk of the repository has an embedding, answer returns the
\* fixed message with confidence 0.0, no sources, model_used "none" and the
\* error flag false, without calling the generation backend.
C10_NoChunksFixedAnswer ==
    \A a \in DOMAIN asks :
        (/\ Answered(a)
         /\ \A i \in DOMAIN embedded :
               embedded[i].repo = asks[a].repo => embedded[i].emb = 0) =>
            /\ asks[a].result.answer = NO_RELEVANT_CODE
            /\ asks[a].result.confidence_score = 0
            /\ asks[a].result.sources = <<>>
            /\ asks[a].result.model_used = "none"
            /\ ~asks[a].result.error
            /\ ~asks[a].result.called
            /\ asks[a].gen = "not_called"
            /\ asks[a].response = 200

\* a question was answered on a ready repository that has chunk rows, none of
\* them with an embedding
C10_Witness ==
    \E a \in DOMAIN asks :
        /\ Answered(a)
        /\ \E i \in DOMAIN embedded :
              embedded[i].repo = asks[a].repo /\ embedded[i].emb = 0
        /\ \A i \in DOMAIN embedded :
              embedded[i].repo = asks[a].repo => embedded[i].emb = 0
        /\ asks[a].result.model_used = "none"

\* C21: within one process the embedding model is loaded at most once: when
\* several threads call generate_embedding or generate_embeddings_batch before
\* the model is loaded, the constructor runs exactly once and every caller
\* uses the same model instance.
C21_ModelLoadedOnce ==
    /\ loads <= 1
    /\ \A t, u \in ThreadIds :
          (threads[t].pc = "done" /\ threads[u].pc = "done")
              => threads[t].used = threads[u].used

\* C22: for every list of texts and every batch size >= 1,
\* generate_embeddings_batch returns a list as long as the input whose i-th
\* vector is the embedding of the i-th text, also when the length is not a
\* multiple of the batch size and when the input is empty.
C22_BatchKeepsOrderAndLength ==
    \A c \in DOMAIN batchOutput :
        /\ Len(batchOutput[c]) = Len(batchInput.texts)
        /\ \A i \in DOMAIN batchInput.texts :
              batchOutput[c][i] = EmbeddingOf(batchInput.texts[i])

\* a list of distinct texts whose length is above the batch size and not a
\* multiple of it has been embedded
C22_Witness ==
    \E c \in DOMAIN batchOutput :
        /\ Len(batchInput.texts) > batchInput.batch_size
        /\ Len(batchInput.texts) % batchInput.batch_size # 0
        /\ batchInput.texts[1] # batchInput.texts[Len(batchInput.texts)]
        /\ Len(batchOutput[c]) = Len(batchInput.texts)

\* the lines of the file: a newline at the end of the content ends the last
\* line and starts no further one; the empty file has none
FileLines(src) ==
    IF src.newline THEN src.n - 1
    ELSE IF src.n = 1 /\ src.text = {} THEN 0 ELSE src.n

\* C23: for a file of L lines and window size N the generic strategy gives
\* the chunks in file order, window i covering [i*N+1, min((i+1)*N, L)]: the
\* windows are pairwise disjoint, they cover [1,L] except for the windows
\* without text, and no chunk's line_end exceeds L.
C23_GenericWindowsTileFile ==
    \A c \in DOMAIN chunked :
        LET ch == chunked[c].chunks
            L == FileLines(source)
            N == CHUNK_SIZE_LINES
        IN  (~chunked[c].raised /\ \A i \in DOMAIN ch : ch[i].chunk_type = "block") =>
              /\ \A i \in DOMAIN ch :
                    /\ ch[i].line_end <= L
                    /\ \E w \in 0..(L \div N) :
                          /\ ch[i].line_start = w * N + 1
                          /\ ch[i].line_end = Min((w + 1) * N, L)
              /\ \A i, j \in DOMAIN ch : i < j => ch[i].line_end < ch[j].line_start
              /\ \A l \in source.text :
                    \E i \in DOMAIN ch : ch[i].line_start <= l /\ l <= ch[i].line_end

\* the function and class declarations of a parsed Python file, nested ones
\* included, in the order of the walk
Declarations(src) ==
    SelectSeq(src.parse.nodes,
              LAMBDA nd : nd.kind \in {"FunctionDef", "AsyncFunctionDef", "ClassDef"})

\* C24: chunk_file never mixes strategies in one result: a Python file that
\* parses and has a function or class declaration gives one chunk per
\* declaration, nested ones included, each tagged function or class; a Python
\* file that fails to parse or has no declaration, and every file of another
\* language, is chunked by the generic strategy, which gives chunks tagged
\* block only; the language tag of every chunk is the one of the extension
\* table, "unknown" for an extension outside it.
C24_OneStrategyPerFile ==
    \A c \in DOMAIN chunked :
        LET ch == chunked[c].chunks
            structural == /\ source.readable
                          /\ source.suffix = <<".", "py">>
                          /\ source.parse.exc = "none"
                          /\ Declarations(source) # <<>>
        IN  /\ ~chunked[c].raised
            /\ structural =>
                  /\ Len(ch) = Len(Declarations(source))
                  /\ \A i \in DOMAIN ch :
                        /\ ch[i].chunk_type =
                              (IF Declarations(source)[i].kind = "ClassDef"
                               THEN "class" ELSE "function")
                        /\ ch[i].line_start = Declarations(source)[i].lineno
            /\ ~structural => \A i \in DOMAIN ch : ch[i].chunk_type = "block"
            /\ \A i \in DOMAIN ch : ch[i].language = Language(source.suffix)
            /\ source.suffix = <<".", "md">> =>
                  \A i \in DOMAIN ch : ch[i].language = "unknown"

\* C25: every run dispatched by create_repository finds the row of its
\* repository: it does not start before the transaction that inserts the row
\* is committed, so it never ends with "Repository not found", without a job,
\* the repository left in status pending.
C25_CreatedRunFindsRepository ==
    \A n \in DOMAIN runs :
        (calls[runs[n].call].caller = "create" /\ runs[n].pc # "queued") =>
            /\ calls[runs[n].call].txn = "committed"
            /\ runs[n].loaded # "none"

\* the runs of repository r that have started and not yet ended
RunsInProgress(r) ==
    {n \in DOMAIN runs : runs[n].repo = r /\ runs[n].pc \notin {"queued", "done"}}

\* C26: at most one pipeline run of a repository is in progress at any time: a
\* re-analysis request made while a run has started and not yet ended starts
\* no second run that executes concurrently with the first.
C26_OneRunInProgress ==
    \A r \in RepoIds : Cardinality(RunsInProgress(r)) <= 1

\* C27: once the run that created a job has ended, the job is completed or
\* failed, never left in processing, and a job marked failed by a failing run
\* is the job of that run, also when runs of the repository overlap.
C27_JobOfEndedRunSettled ==
    \A n \in DOMAIN runs :
        (runs[n].pc = "done" /\ runs[n].job # 0) =>
            /\ jobs[runs[n].job].status \in {"completed", "failed"}
            /\ runs[n].result = "raised" =>
                  /\ jobs[runs[n].job].status = "failed"
                  /\ jobs[runs[n].job].error = ErrorText(n)

\* C28: in every reachable state, a repository in status ready has a most
\* recent job that is completed with progress 100 (and its completion time,
\* set in the same assignment), and a repository whose most recent job is
\* failed is in status failed, or pending after a re-analysis request.
C28_ReadyMeansLatestJobCompleted ==
    \A r \in RepoIds :
        repoRow[r] = "committed" =>
            /\ repoStatus[r] = "ready" =>
                  /\ LatestJob(r) # 0
                  /\ jobs[LatestJob(r)].status = "completed"
                  /\ jobs[LatestJob(r)].progress = 100
            /\ (LatestJob(r) # 0 /\ jobs[LatestJob(r)].status = "failed") =>
                  repoStatus[r] \in {"failed", "pending"}

\* C29: the chunks of a run are persisted only in the commit that makes the
\* repository ready and the job completed: a run that fails at any step, the
\* store step included, persists none of its chunks.
C29_NoChunksOfFailedRun ==
    \A c \in chunkRows : runs[c.run].result = "returned"

\* C30: ask_question runs the QA engine and persists a Question row only
\* when the repository exists and its status is ready at the check; for a
\* repository in status pending, analyzing or failed the request is rejected,
\* no embedding, retrieval or generation call is made and no Question row is
\* created.
C30_OnlyReadyRepositoryIsAsked ==
    \A a \in DOMAIN asks :
        /\ (asks[a].engine \/ RowsOfAsk(a) # {} \/ asks[a].pending # <<>>)
              => asks[a].seen = "ready"
        /\ asks[a].seen \in {"pending", "analyzing", "failed"} =>
              /\ asks[a].response = 400
              /\ ~asks[a].engine
              /\ asks[a].gen = "not_called"
              /\ asks[a].retrieved = <<>>
              /\ RowsOfAsk(a) = {}
        /\ asks[a].seen = "absent" => asks[a].response = 404 /\ ~asks[a].engine

\* a question on a failed repository that holds an embedded chunk was
\* rejected, its request has ended and the table of questions is empty
C30_Witness ==
    \E a \in DOMAIN asks :
        /\ asks[a].seen = "failed"
        /\ asks[a].response = 400
        /\ ~asks[a].open
        /\ \E i \in DOMAIN embedded :
              embedded[i].repo = asks[a].repo /\ embedded[i].emb # 0
        /\ questions = <<>>

====
